---- MODULE Spec2Model ----
(***************************************************************************)
(* Model of the tournament test drivers of micro-2048:                     *)
(*   src/test_tournaments_fresh.py  (TournamentTester, "fresh" tester)     *)
(*   src/test_tournaments.py        (TournamentTester, original tester)    *)
(*   src/stress_test_coordinator.py (StressTestCoordinator)                *)
(* The drivers are sequential programs; the GraphQL service is the         *)
(* environment: every request is answered by a response chosen             *)
(* nondeterministically from a bounded set of response shapes.             *)
(***************************************************************************)
EXTENDS Integers, Sequences, FiniteSets, TLC

VARIABLES
    mode,                 \* which driver / run mode this run executes
    pc,                   \* position of the run in its driver
    tournament_count,     \* run_full_test / run_coordinator_setup argument
    player_chain_id,      \* self.player_chain_id ("None" when unset)
    tournaments,          \* self.tournaments: creation mutation results
    boards,               \* self.boards (fresh tester)
    created_tournaments,  \* created_tournaments (validation mode / coordinator)
    test_config,          \* self.test_config['tournaments'] (coordinator), exported flag
    leaderboards,         \* the list a loop of the driver iterates over
    idx,                  \* loop index of the current loop
    results,              \* results dict of test_board_creation(_and_moves)
    filtering_success,    \* run_tournament_validation_test local
    validation_success,   \* run_tournament_validation_test local
    past_tournament_id,   \* test_board_creation_validation local
    active_tournament_id, \* test_board_creation_validation / step 5 local
    success_count,        \* test_board_creation_validation local
    total_tests,          \* test_board_creation_validation local
    board_id,             \* value returned by the last create_board call
    lb_details,           \* value returned by the last query_leaderboard_chain call
    all_accessible,       \* verify_tournament_accessibility local
    all_status_ok,        \* verify_active_tournaments: every per-tournament status was a check mark
    checks,               \* response class and returned value of the create_board calls of the validation checks
    retval,               \* value returned by the run (meaningful once pc = "done")
    exit_code,            \* sys.exit argument (-1 until the process exits)
    log,                  \* every request sent so far, in order
    fatal_transport,      \* a transport failure has hit a registerPlayer or leaderboardAction request
    outcomes,             \* (response class, returned value) of the failed make_graphql_request calls so far
    registered,           \* a registerPlayer request of this run was answered with data
    seen_chains,          \* the player chain ids the state queries of this run returned
    returned_boards,      \* the board ids the create_board calls of this run returned
    polls,                \* for the two state fetches of verify_active_tournaments and the
                          \* first fetch after it: whether the fetched state satisfies the
                          \* verifier's predicate (kept until the fetch after that one)
    streaming,            \* what step 5 of the validation run observed: the value make_moves
                          \* returned and the totalBoards read for the active tournament
    call_args,            \* arguments of the single call a call-level run makes
    last_call,            \* what that call returned and the requests it sent
    last_chain,           \* the chain id of the last player record a state query returned
    board_tests           \* test_board_creation_and_moves of the fresh tester: how many
                          \* tournaments of the test user its state query listed, and for
                          \* each tested one what create_board and make_moves returned

vars == << mode, pc, tournament_count, player_chain_id, tournaments, boards,
           created_tournaments, test_config, leaderboards, idx, results,
           filtering_success, validation_success, past_tournament_id,
           active_tournament_id, success_count, total_tests, board_id,
           lb_details, all_accessible, all_status_ok, checks, retval, exit_code, log,
           fatal_transport, outcomes, registered, seen_chains, returned_boards,
           polls, streaming, call_args, last_call, last_chain, board_tests >>

(***************************************************************************)
(* Bounds of the model.                                                    *)
(***************************************************************************)
\* longest leaderboards list a query response carries
MaxLbs == 2
\* longest boards list a boards query response carries
MaxBoards == 1
\* longest leaderboards list a leaderboard chain's own response carries
MaxChainLbs == 1
\* largest tournament count given on the command line
MaxCount == 2
\* wall-clock time (seconds) at which the validation scenarios are built
CreationTime == 7200

(***************************************************************************)
(* Values.                                                                 *)
(***************************************************************************)
\* Python None for optional strings
NoneStr == "None"
\* Python truthiness of an optional string
Truthy(s) == s # NoneStr /\ s # ""

\* self.username of the fresh tester, "hello" of the original tester,
\* self.coordinator_username of the coordinator
Username(m) ==
    CASE m \in {"fresh_full", "fresh_validation"} -> "test_user"
      [] m = "orig_full" -> "hello"
      [] m = "coordinator" -> "coord_user"

OtherUser == "other_user"

\* the entry of `checks` for a check that was not performed
NotRun == [class |-> "not_run", kind |-> "none", ret |-> NoneStr]

SeqsUpTo(S, n) == UNION { [1..k -> S] : k \in 0..n }


Range(s) == { s[i] : i \in DOMAIN s }

(***************************************************************************)
(* Responses of the service (the environment).                             *)
(*   ok            HTTP 200, JSON body {"data": ...} without "errors"      *)
(*   errors        HTTP 200, JSON body {"data": null, "errors": [...]}     *)
(*   errors_nodata HTTP 200, JSON body {"errors": [...]}                   *)
(*   http_errors   HTTP 5xx, JSON body {"errors": [...]}                   *)
(*   http          HTTP 4xx/5xx whose body carries no "errors"             *)
(*   timeout       no response within the timeout                          *)
(***************************************************************************)
Kinds == {"ok", "errors", "errors_nodata", "http_errors", "http", "timeout"}

\* a further outcome, answered to call-level runs of make_graphql_request only:
\* HTTP 200 whose JSON body carries an "errors" member that is an empty list
MalformedKinds == {"errors_empty"}

\* a response carrying GraphQL errors is a service rejection; a timeout or a
\* bare HTTP error is a transport failure
Class(kind) ==
    CASE kind = "ok" -> "ok"
      [] kind \in {"errors", "errors_nodata", "http_errors", "errors_empty"} -> "rejection"
      [] kind \in {"http", "timeout"} -> "transport"

\* the leaderboardId the service gave the tournament of each name
IdOf(name) ==
    CASE name \in {"past_tournament", "tournament_1", "test_1", "0"} -> "L1"
      [] name \in {"active_tournament", "tournament_2", "test_2", "1"} -> "L2"
      [] name = "future_tournament" -> "L3"
      [] name = "eternal_tournament" -> "L4"
PlayerChains == {"PC1"}
\* the chain ids the player record of a state response may carry, per run
\* mode: the short runs of the original tester see the player on either of
\* two chains
PlayerChainsOf(m) == IF m = "orig_full" THEN PlayerChains \cup {"PC2"} ELSE PlayerChains
BoardIds == {"B1"}
\* values a leaderboardAction(Create) mutation returns
Tokens == {"", "T1"}

\* names the leaderboards of a response may carry, per run mode
Names(m) ==
    CASE m = "fresh_validation" ->
            {"past_tournament", "future_tournament", "active_tournament", "eternal_tournament"}
      [] m = "fresh_full" -> {"tournament_1"}
      [] m = "orig_full" -> {"test_1"}
      [] m = "coordinator" -> {"0", "1"}

Lb(id, name, host, total) ==
    [leaderboardId |-> id, name |-> name, host |-> host, chainId |-> "LC1",
     totalBoards |-> total]

\* names whose leaderboard a response may also list without an id, or as
\* hosted by another user
VariedNames(m) ==
    CASE m = "fresh_validation" -> {"active_tournament"}
      [] m = "fresh_full" -> {"tournament_1"}
      [] m = "orig_full" -> {"test_1"}
      [] m = "coordinator" -> {"0"}

\* the leaderboard records a response may list: one per name, hosted by the
\* run's user, and for the varied names also one without id, one hosted by
\* another user and one for each further totalBoards
LbRecs(m, names, totals) ==
    { Lb(IdOf(n), n, Username(m), 0) : n \in names }
    \cup { Lb("", n, Username(m), 0) : n \in names \cap VariedNames(m) }
    \cup { Lb(IdOf(n), n, OtherUser, 0) : n \in names \cap VariedNames(m) }
    \cup { Lb(IdOf(n), n, Username(m), t) : n \in names \cap VariedNames(m), t \in totals }

BoardRecs(m) ==
    [boardId : BoardIds, player : {Username(m), OtherUser}, leaderboardId : {"L1", "L2"}]

Failure(kind) ==
    [kind |-> kind, value |-> "", leaderboards |-> << >>, player |-> NoneStr, boards |-> << >>]

Failures == { Failure(k) : k \in Kinds \ {"ok"} }

\* responses to a mutation returning one string
MutationResponses(values) ==
    { [Failure("ok") EXCEPT !.value = v] : v \in values } \cup Failures

\* responses to the combined state query (leaderboards, player, boards)
StateResponses(m) ==
    { [Failure("ok") EXCEPT !.leaderboards = l, !.player = p] :
        l \in SeqsUpTo(LbRecs(m, Names(m), {0}), MaxLbs), p \in PlayerChainsOf(m) \cup {NoneStr} }
    \cup Failures

\* names of the leaderboards a leaderboards-only query response may list
ScoreNames(m) ==
    CASE m = "fresh_validation" -> {"past_tournament", "active_tournament"}
      [] OTHER -> Names(m)

\* responses to a leaderboards query
LeaderboardResponses(m, totals) ==
    { [Failure("ok") EXCEPT !.leaderboards = l] :
        l \in SeqsUpTo(LbRecs(m, ScoreNames(m), totals), MaxLbs) }
    \cup Failures

\* responses of a leaderboard chain to the leaderboards query
ChainResponses(m, totals) ==
    { [Failure("ok") EXCEPT !.leaderboards = l] :
        l \in SeqsUpTo(LbRecs(m, ScoreNames(m), totals), MaxChainLbs) }
    \cup Failures

\* responses to the boards query on a player chain
BoardsResponses(m) ==
    { [Failure("ok") EXCEPT !.boards = b] : b \in SeqsUpTo(BoardRecs(m), MaxBoards) }
    \cup Failures

(***************************************************************************)
(* make_graphql_request: the decoded body, or None.                        *)
(***************************************************************************)
NoneResult == [tag |-> "None"]

\* a call that ended with an exception leaving make_graphql_request
Raised(exc) == [tag |-> "raised", exc |-> exc]

Json(resp) ==
    [tag |-> "json", hasData |-> resp.kind \in {"ok", "errors"},
     hasErrors |-> resp.kind # "ok", body |-> resp]

fresh_make_graphql_request(resp, show_error) ==
    CASE resp.kind = "timeout" -> NoneResult
      [] resp.kind = "errors_empty" /\ show_error -> Raised("IndexError")
      [] resp.kind \in {"errors", "errors_nodata", "http_errors"} /\ show_error -> NoneResult
      [] resp.kind \in {"http", "http_errors"} -> NoneResult
      [] OTHER -> Json(resp)

coord_make_graphql_request(resp, show_error) ==
    CASE resp.kind = "timeout" -> NoneResult
      [] resp.kind = "errors_empty" /\ show_error -> Raised("IndexError")
      [] resp.kind \in {"errors", "errors_nodata", "http_errors"} /\ show_error -> NoneResult
      [] resp.kind \in {"http", "http_errors"} -> NoneResult
      [] OTHER -> Json(resp)

orig_make_graphql_request(resp) ==
    CASE resp.kind = "timeout" -> NoneResult
      [] resp.kind = "errors_empty" -> NoneResult
      [] resp.kind \in {"http", "http_errors"} -> NoneResult
      [] resp.kind \in {"errors", "errors_nodata"} -> NoneResult
      [] OTHER -> Json(resp)

\* a make_graphql_request that posts again after a timeout
make_graphql_request_retry(tester, url, resp, show_error) ==
    LET result == CASE tester = "fresh" -> fresh_make_graphql_request(resp, show_error)
                    [] tester = "coord" -> coord_make_graphql_request(resp, show_error)
                    [] tester = "orig" -> orig_make_graphql_request(resp)
        post == [op |-> "post", chain |-> url, arg |-> "", n |-> 0]
    IN  [fn |-> "make_graphql_request", ret |-> result,
         sent |-> IF resp.kind = "timeout" THEN << post, post >> ELSE << post >>,
         answers |-> << [kind |-> resp.kind, result |-> result] >>]

\* one call of make_graphql_request(url, query) of one of the three classes:
\* what it returns and the requests.post calls it makes
make_graphql_request(tester, url, resp, show_error) ==
    LET result == CASE tester = "fresh" -> fresh_make_graphql_request(resp, show_error)
                    [] tester = "coord" -> coord_make_graphql_request(resp, show_error)
                    [] tester = "orig" -> orig_make_graphql_request(resp)
    IN  [fn |-> "make_graphql_request", ret |-> result,
         sent |-> << [op |-> "post", chain |-> url, arg |-> "", n |-> 0] >>,
         answers |-> << [kind |-> resp.kind, result |-> result] >>]

\* the test `result and "data" in result` every caller applies
ResultHasData(result) == result.tag = "json" /\ result.hasData

\* self.app_id: the application id of the run, given on the command line
app_id == "APP"

\* a request as recorded in the log: the chain and the application of the
\* address {base_url}/chains/{chain}/applications/{app} it is posted to
Req(op, chain, arg, n) ==
    [op |-> op, chain |-> chain, app |-> app_id, arg |-> arg, n |-> n]

\* outcomes extended by what one make_graphql_request call returned
Observe(seen, kind, ret) ==
    IF Class(kind) = "ok" THEN seen
    ELSE seen \cup { [class |-> Class(kind), ret |-> ret] }

\* streaming before step 5 has made moves or read a totalBoards (-1: none read)
NotStreamed == [moves |-> "not_run", total_boards |-> -1]

\* board_tests before test_board_creation_and_moves has queried the state
NotTested == [listed |-> 0, outcomes |-> << >>]

\* call_args and last_call of a run that makes no call-level call
NoArgs == [fn |-> "none"]
NoCall == [fn |-> "none"]

\* the requests whose transport failure the monitor fatal_transport records
FatalOps == {"registerPlayer", "leaderboardAction"}

(***************************************************************************)
(* Groups of variables.                                                    *)
(***************************************************************************)
\* the arguments of the run; no driver action changes them (a driver run makes
\* no call-level call, so call_args and last_call keep their initial values)
argv == << mode, tournament_count, call_args, last_call >>
selfv == << tournaments, boards, created_tournaments, test_config >>
loopv == << leaderboards, idx, results, lb_details >>
validv == << filtering_success, validation_success, past_tournament_id,
            active_tournament_id, success_count, total_tests, all_status_ok, checks >>
runv == << retval, exit_code >>
histv == << log, fatal_transport, outcomes, registered, seen_chains, returned_boards,
           last_chain >>

Modes == {"fresh_validation", "fresh_full", "orig_full", "coordinator"}

Init ==
    /\ mode \in Modes
    /\ tournament_count \in
          IF mode \in {"fresh_full", "coordinator"} THEN 1..MaxCount
          ELSE IF mode = "orig_full" THEN {3} ELSE {0}
    /\ pc = "register"
    /\ player_chain_id = NoneStr
    /\ tournaments = << >>
    /\ boards = << >>
    /\ created_tournaments = << >>
    /\ test_config = [tournaments |-> << >>, exported |-> FALSE]
    /\ leaderboards = << >>
    /\ idx = 0
    /\ results = << >>
    /\ filtering_success = FALSE
    /\ validation_success = FALSE
    /\ past_tournament_id = NoneStr
    /\ active_tournament_id = NoneStr
    /\ success_count = 0
    /\ total_tests = 0
    /\ board_id = NoneStr
    /\ lb_details = NoneResult
    /\ all_status_ok = FALSE
    /\ all_accessible = FALSE
    /\ checks = [past |-> NotRun, active |-> NotRun]
    /\ retval = FALSE
    /\ exit_code = -1
    /\ log = << >>
    /\ fatal_transport = FALSE
    /\ outcomes = {}
    /\ registered = FALSE
    /\ seen_chains = {}
    /\ returned_boards = {}
    /\ last_chain = NoneStr
    /\ board_tests = NotTested
    /\ polls = << >>
    /\ streaming = NotStreamed
    /\ call_args = NoArgs
    /\ last_call = NoCall

\* sys.exit(0 if success else 1)
ExitCode(success) == IF success THEN 0 ELSE 1

\* a main() that drops the value the run returned and never calls sys.exit
FinishWithoutExit(success) ==
    /\ retval' = success
    /\ exit_code' = exit_code
    /\ pc' = "done"

\* the run returns `success` and main() exits with the matching code
Finish(success) ==
    /\ retval' = success
    /\ exit_code' = ExitCode(success)
    /\ pc' = "done"

\* one request sent and answered: the log and what make_graphql_request
\* returned for the answer
Sent(req, resp, result) ==
    /\ log' = Append(log, req)
    /\ fatal_transport' = (fatal_transport
                            \/ (req.op \in FatalOps /\ Class(resp.kind) = "transport"))
    /\ outcomes' = Observe(outcomes, resp.kind, result)
    /\ registered' = (registered \/ (req.op = "registerPlayer" /\ ResultHasData(result)))
    /\ seen_chains' = IF req.op = "state" /\ ResultHasData(result)
                         /\ result.body.player # NoneStr
                      THEN seen_chains \cup {result.body.player}
                      ELSE seen_chains
    /\ last_chain' = IF req.op = "state" /\ ResultHasData(result)
                        /\ result.body.player # NoneStr
                     THEN result.body.player
                     ELSE last_chain
    /\ UNCHANGED returned_boards

(***************************************************************************)
(* Fresh tester: helpers shared by its two run modes.                      *)
(***************************************************************************)
\* a register_player that reports success whatever the response
register_player_unchecked(resp) == TRUE

\* register_player: True iff the response carries data
fresh_register_player(resp) == ResultHasData(fresh_make_graphql_request(resp, TRUE))

\* a create_tournament_with_time that reports a creation whatever the response
create_tournament_assumed(resp) == "T1"

\* create_tournament_with_time: the mutation's value, or None
fresh_create_tournament_with_time(resp) ==
    LET result == fresh_make_graphql_request(resp, TRUE)
    IN  IF ResultHasData(result) THEN result.body.value ELSE NoneStr

\* query_state: the returned state and the new self.player_chain_id.
\* The state is {} when the request failed, None when the response lists no
\* leaderboards, the decoded data otherwise.
fresh_query_state(resp, pcid) ==
    LET result == fresh_make_graphql_request(resp, TRUE)
    IN  IF ResultHasData(result)
        THEN [player_chain_id |-> IF result.body.player # NoneStr
                                  THEN result.body.player ELSE pcid,
              state |-> IF result.body.leaderboards # << >>
                        THEN [tag |-> "data", leaderboards |-> result.body.leaderboards]
                        ELSE [tag |-> "None"]]
        ELSE [player_chain_id |-> pcid, state |-> [tag |-> "empty"]]

\* `state and "leaderboards" in state`
StateHasLeaderboards(state) == state.tag = "data"

\* a filter that keeps the tournaments of every host
MyTournamentsAnyHost(lbs, user) ==
    SelectSeq(lbs, LAMBDA lb : Truthy(lb.leaderboardId))

\* [lb for lb in leaderboards if lb.leaderboardId and lb.host == username]
MyTournaments(lbs, user) ==
    SelectSeq(lbs, LAMBDA lb : Truthy(lb.leaderboardId) /\ lb.host = user)

\* a lookup that hands out the creation mutation's value as the tournament id
tournament_id_from_token(state, tournament_name, user) ==
    IF StateHasLeaderboards(state) THEN "T1" ELSE NoneStr

\* get_tournament_id_by_name, applied to the state its query returned
get_tournament_id_by_name(state, tournament_name, user) ==
    IF StateHasLeaderboards(state)
    THEN LET named == SelectSeq(MyTournaments(state.leaderboards, user),
                                LAMBDA lb : lb.name = tournament_name)
         IN  IF named # << >> THEN Head(named).leaderboardId ELSE NoneStr
    ELSE NoneStr

\* a create_board that returns the first board of the boards query, whoever
\* owns it and whatever its tournament
fresh_create_board_first_board(pcid, user, tournament_id, timestamp, r1, r2) ==
    IF ~Truthy(pcid)
    THEN [fn |-> "create_board", ret |-> NoneStr, raised |-> "no", sent |-> << >>,
          answers |-> << >>]
    ELSE LET result == fresh_make_graphql_request(r1, TRUE)
             newBoard == Req("newBoard", pcid, tournament_id, timestamp)
         IN  IF ResultHasData(result)
             THEN LET boards_result == fresh_make_graphql_request(r2, TRUE)
                      listed == IF ResultHasData(boards_result)
                                THEN boards_result.body.boards
                                ELSE << >>
                  IN  [fn |-> "create_board", raised |-> "no",
                       ret |-> IF listed # << >> THEN Head(listed).boardId ELSE NoneStr,
                       sent |-> << newBoard, Req("boards", pcid, "", 0) >>,
                       answers |-> << [kind |-> r1.kind, result |-> result],
                                      [kind |-> r2.kind, result |-> boards_result] >>]
             ELSE [fn |-> "create_board", ret |-> NoneStr, raised |-> "no",
                   sent |-> << newBoard >>,
                   answers |-> << [kind |-> r1.kind, result |-> result] >>]

\* create_board: the board id found by the follow-up boards query (or None),
\* the requests it sent and what make_graphql_request returned for each
fresh_create_board(pcid, user, tournament_id, timestamp, r1, r2) ==
    IF ~Truthy(pcid)
    THEN [fn |-> "create_board", ret |-> NoneStr, raised |-> "no", sent |-> << >>,
          answers |-> << >>]
    ELSE LET result == fresh_make_graphql_request(r1, TRUE)
             newBoard == Req("newBoard", pcid, tournament_id, timestamp)
         IN  IF ResultHasData(result)
             THEN LET boards_result == fresh_make_graphql_request(r2, TRUE)
                      mine == IF ResultHasData(boards_result)
                              THEN SelectSeq(boards_result.body.boards,
                                     LAMBDA b : b.player = user
                                                /\ b.leaderboardId = tournament_id)
                              ELSE << >>
                  IN  [fn |-> "create_board", raised |-> "no",
                       ret |-> IF mine # << >> THEN Head(mine).boardId ELSE NoneStr,
                       sent |-> << newBoard, Req("boards", pcid, "", 0) >>,
                       answers |-> << [kind |-> r1.kind, result |-> result],
                                      [kind |-> r2.kind, result |-> boards_result] >>]
             ELSE [fn |-> "create_board", ret |-> NoneStr, raised |-> "no",
                   sent |-> << newBoard >>,
                   answers |-> << [kind |-> r1.kind, result |-> result] >>]

\* make_moves: the direction tokens the moves cycle through
move_pattern == << "Down", "Right", "Down", "Left" >>

\* make_moves: timestamp of the first move
base_timestamp == 100000000

\* the characters of the decimal digits 0..9
DigitChars == << "0", "1", "2", "3", "4", "5", "6", "7", "8", "9" >>

\* str(n) for an int n >= 0: its decimal digits, most significant first
RECURSIVE str(_)
str(n) ==
    IF n < 10 THEN << DigitChars[n + 1] >>
    ELSE Append(str(n \div 10), DigitChars[(n % 10) + 1])

\* a moves_list whose timestamp does not advance with the move
moves_list_same_timestamp(num_moves) ==
    [k \in 1..num_moves |->
        << move_pattern[((k - 1) % Len(move_pattern)) + 1], str(base_timestamp) >>]

\* make_moves: moves_list after the loop over range(num_moves); position k
\* holds the pair built in iteration i = k - 1
moves_list(num_moves) ==
    [k \in 1..num_moves |->
        << move_pattern[((k - 1) % Len(move_pattern)) + 1],
           str(base_timestamp + (k - 1) * 1000) >>]

\* json.dumps of a list of pairs of strings: a JSON array of two-element arrays
json_dumps(list) == [json |-> "array", items |-> list]

\* make_moves: True iff the makeMoves response carries data; the one request
\* carries the variables boardId and moves
fresh_make_moves(pcid, bid, num_moves, resp) ==
    IF ~Truthy(pcid)
    THEN [fn |-> "make_moves", ret |-> FALSE, sent |-> << >>, answers |-> << >>,
          variables |-> NoneResult]
    ELSE LET result == fresh_make_graphql_request(resp, TRUE)
         IN  [fn |-> "make_moves", ret |-> ResultHasData(result),
              sent |-> << Req("makeMoves", pcid, bid, num_moves) >>,
              answers |-> << [kind |-> resp.kind, result |-> result] >>,
              variables |-> [boardId |-> bid,
                             moves |-> json_dumps(moves_list(num_moves))]]

RECURSIVE ObserveAll(_, _)
ObserveAll(seen, answers) ==
    IF answers = << >> THEN seen
    ELSE ObserveAll(Observe(seen, Head(answers).kind, Head(answers).result), Tail(answers))

\* the board ids a call returned: the fresh tester's create_board returns one
BoardsOf(call) ==
    IF call.fn = "create_board" THEN {call.ret} \ {NoneStr} ELSE {}

\* the history after a create_board or make_moves call
Called(call) ==
    /\ log' = log \o call.sent
    /\ outcomes' = ObserveAll(outcomes, call.answers)
    /\ returned_boards' = returned_boards \cup BoardsOf(call)
    /\ UNCHANGED << fatal_transport, registered, seen_chains, last_chain >>

\* the history after a create_board call followed by a make_moves call
CalledBoth(call, moves) ==
    /\ log' = (log \o call.sent) \o moves.sent
    /\ outcomes' = ObserveAll(ObserveAll(outcomes, call.answers), moves.answers)
    /\ returned_boards' = returned_boards \cup BoardsOf(call)
    /\ UNCHANGED << fatal_transport, registered, seen_chains, last_chain >>

\* what a create_board call of the validation checks observed: the kind of
\* the answer to its newBoard request, the class of that kind and the value
\* the call returned
CheckOutcome(call) ==
    [class |-> IF call.answers = << >> THEN "no_request"
               ELSE Class(call.answers[1].kind),
     kind |-> IF call.answers = << >> THEN "none" ELSE call.answers[1].kind,
     ret |-> call.ret]

(***************************************************************************)
(* Fresh tester, validation mode: run_tournament_validation_test.          *)
(***************************************************************************)
\* timeout (seconds) of the requests.post of the fresh tester
request_timeout == 10

\* longest the validation run sleeps between two consecutive requests (seconds)
SleepBetweenRequests == 2

\* the wall-clock times (seconds) the run can have reached: current_time is
\* read before the first creation, and since then every request took at most
\* request_timeout and was preceded by at most SleepBetweenRequests of sleep
VerificationTimes ==
    CreationTime .. CreationTime + Len(log) * (request_timeout + SleepBetweenRequests)

\* scenarios whose future tournament starts 36 seconds after creation
tournament_scenarios_starting_soon(current_time) ==
    << [name |-> "past_tournament", start_time |-> current_time - 3600,
        end_time |-> current_time - 1800, should_be_active |-> FALSE],
       [name |-> "future_tournament", start_time |-> current_time + 36,
        end_time |-> current_time + 7200, should_be_active |-> FALSE],
       [name |-> "active_tournament", start_time |-> 0, end_time |-> 0,
        should_be_active |-> TRUE],
       [name |-> "eternal_tournament", start_time |-> 0, end_time |-> 0,
        should_be_active |-> TRUE] >>

\* (name, start_time, end_time, should_be_active) of create_multiple_test_tournaments
tournament_scenarios(current_time) ==
    << [name |-> "past_tournament", start_time |-> current_time - 3600,
        end_time |-> current_time - 1800, should_be_active |-> FALSE],
       [name |-> "future_tournament", start_time |-> current_time + 3600,
        end_time |-> current_time + 7200, should_be_active |-> FALSE],
       [name |-> "active_tournament", start_time |-> 0, end_time |-> 0,
        should_be_active |-> TRUE],
       [name |-> "eternal_tournament", start_time |-> 0, end_time |-> 0,
        should_be_active |-> TRUE] >>

\* the record create_multiple_test_tournaments stores for a created scenario
CreatedRecord(sc, user) ==
    [name |-> sc.name, start_time |-> sc.start_time, end_time |-> sc.end_time,
     should_be_active |-> sc.should_be_active, host |-> user]

\* Step 1 of both run modes of the fresh tester
FreshRegister ==
    /\ mode \in {"fresh_validation", "fresh_full"}
    /\ pc = "register"
    /\ \E resp \in MutationResponses({"PC1"}) :
          /\ Sent(Req("registerPlayer", "main", Username(mode), 0), resp,
                  fresh_make_graphql_request(resp, TRUE))
          /\ IF fresh_register_player(resp)
             THEN /\ pc' = "create"
                  /\ idx' = 1
                  /\ UNCHANGED runv
             ELSE /\ Finish(FALSE)
                  /\ UNCHANGED idx
    /\ UNCHANGED << argv, board_tests, polls, streaming, all_accessible, selfv, player_chain_id, leaderboards, results, lb_details,
                    validv, board_id >>

\* one iteration of the loop of create_multiple_test_tournaments
ValidationCreate ==
    /\ mode = "fresh_validation"
    /\ pc = "create"
    /\ \E resp \in MutationResponses(Tokens) :
          LET sc == tournament_scenarios(CreationTime)[idx]
              mutation_result == fresh_create_tournament_with_time(resp)
          IN  /\ Sent(Req("leaderboardAction", "main", sc.name, 0), resp,
                      fresh_make_graphql_request(resp, TRUE))
              /\ IF Truthy(mutation_result)
                 THEN /\ created_tournaments' =
                            Append(created_tournaments, CreatedRecord(sc, Username(mode)))
                      /\ IF idx < Len(tournament_scenarios(CreationTime))
                         THEN idx' = idx + 1 /\ pc' = "create"
                         ELSE idx' = 0 /\ pc' = "update"
                      /\ UNCHANGED runv
                 ELSE /\ Finish(FALSE)
                      /\ UNCHANGED << created_tournaments, idx >>
    /\ UNCHANGED << argv, board_tests, polls, streaming, all_accessible, tournaments, boards, test_config, player_chain_id,
                    leaderboards, results, lb_details, validv, board_id >>

\* trigger_tournament_update: the result is only logged
trigger_tournament_update ==
    /\ mode = "fresh_validation"
    /\ pc = "update"
    /\ \E resp \in MutationResponses({"ok"}) :
          Sent(Req("updateActiveTournaments", "main", "", 0), resp,
               fresh_make_graphql_request(resp, TRUE))
    /\ pc' = "verify_query"
    /\ UNCHANGED << argv, board_tests, polls, streaming, all_accessible, selfv, player_chain_id, loopv, validv, board_id, runv >>

\* expected_active of run_tournament_validation_test
ExpectedActive(created) == Len(SelectSeq(created, LAMBDA t : t.should_be_active))

\* verify_active_tournaments: whether every per-tournament status it logs is
\* a check mark, i.e. visible == should_be_active for every created tournament
AllStatusOk(state, created, user) ==
    LET my_tournaments == IF StateHasLeaderboards(state)
                          THEN MyTournaments(state.leaderboards, user) ELSE << >>
        Visible(t) == \E lb \in Range(my_tournaments) :
                          lb.name = t.name /\ lb.host = user
    IN  StateHasLeaderboards(state)
        /\ \A t \in Range(created) : Visible(t) = t.should_be_active

\* the value verify_active_tournaments returns for the state of its second query
verify_active_tournaments(state, expected_active_count, created, user) ==
    IF StateHasLeaderboards(state)
    THEN LET my_new_tournaments ==
                 SelectSeq(MyTournaments(state.leaderboards, user),
                           LAMBDA lb : lb.name \in { t.name : t \in Range(created) })
         IN  Len(my_new_tournaments) = expected_active_count
    ELSE FALSE

\* the verifier's predicate on a fetched state: as many of the created
\* tournaments are listed as are expected to be active
Converged(state) ==
    verify_active_tournaments(state, ExpectedActive(created_tournaments),
                              created_tournaments, Username(mode))

\* verify_active_tournaments, first query_state (it sets the player chain id)
VerifyFirstQueryOn(resp) ==
    /\ mode = "fresh_validation"
    /\ pc = "verify_query"
    /\    /\ Sent(Req("state", "main", "", 0), resp, fresh_make_graphql_request(resp, TRUE))
          /\ player_chain_id' = fresh_query_state(resp, player_chain_id).player_chain_id
          /\ polls' = Append(polls, Converged(fresh_query_state(resp, player_chain_id).state))
    /\ pc' = "verify_force"
    /\ UNCHANGED << argv, board_tests, streaming, all_accessible, selfv, loopv, validv, board_id, runv >>

\* VerifyFirstQuery, for every answer the service may give
VerifyFirstQuery ==
    /\ mode = "fresh_validation"
    /\ pc = "verify_query"
    /\ \E resp \in StateResponses(mode) : VerifyFirstQueryOn(resp)

\* verify_active_tournaments, the forced block: create_board(eternal_tournament['id'])
\* inside try/except; a record without the key 'id' raises KeyError before
\* create_board is entered, and the except clause only logs
VerifyForceBlockOn(r1, r2) ==
    /\ mode = "fresh_validation"
    /\ pc = "verify_force"
    /\ LET eternal == SelectSeq(created_tournaments,
                                LAMBDA t : t.name = "eternal_tournament")
       IN  IF eternal # << >> /\ Truthy(player_chain_id) /\ "id" \in DOMAIN Head(eternal)
           THEN    Called(fresh_create_board(player_chain_id, Username(mode),
                                             Head(eternal).id, 10000000, r1, r2))
           ELSE UNCHANGED histv
    /\ pc' = "verify_result"
    /\ UNCHANGED << argv, board_tests, polls, streaming, all_accessible, selfv, player_chain_id, loopv, validv, board_id, runv >>

\* VerifyForceBlock, for every answer the service may give
VerifyForceBlock ==
    /\ mode = "fresh_validation"
    /\ pc = "verify_force"
    /\ \E r1 \in MutationResponses({"ack"}), r2 \in BoardsResponses(mode) : VerifyForceBlockOn(r1, r2)


\* verify_active_tournaments, second query_state and the verdict
VerifyResultOn(resp) ==
    /\ mode = "fresh_validation"
    /\ pc = "verify_result"
    /\    LET q == fresh_query_state(resp, player_chain_id)
          IN  /\ Sent(Req("state", "main", "", 0), resp,
                      fresh_make_graphql_request(resp, TRUE))
              /\ player_chain_id' = q.player_chain_id
              /\ polls' = Append(polls, Converged(q.state))
              /\ all_status_ok' = AllStatusOk(q.state, created_tournaments, Username(mode))
              /\ filtering_success' =
                    verify_active_tournaments(q.state, ExpectedActive(created_tournaments),
                                              created_tournaments, Username(mode))
    /\ pc' = "get_past"
    /\ UNCHANGED << argv, board_tests, streaming, all_accessible, selfv, loopv, validation_success, past_tournament_id,
                    active_tournament_id, success_count, total_tests, checks,
                    board_id, runv >>

\* a verifier whose verdict is taken from the state of its first query
VerifyResultStale ==
    /\ mode = "fresh_validation"
    /\ pc = "verify_result"
    /\ \E resp \in StateResponses(mode) :
          LET q == fresh_query_state(resp, player_chain_id)
          IN  /\ Sent(Req("state", "main", "", 0), resp,
                      fresh_make_graphql_request(resp, TRUE))
              /\ player_chain_id' = q.player_chain_id
              /\ polls' = Append(polls, Converged(q.state))
              /\ all_status_ok' = AllStatusOk(q.state, created_tournaments, Username(mode))
              /\ filtering_success' = polls[1]
    /\ pc' = "get_past"
    /\ UNCHANGED << argv, board_tests, streaming, all_accessible, selfv, loopv, validation_success, past_tournament_id,
                    active_tournament_id, success_count, total_tests, checks,
                    board_id, runv >>

\* VerifyResult, for every answer the service may give
VerifyResult ==
    /\ mode = "fresh_validation"
    /\ pc = "verify_result"
    /\ \E resp \in StateResponses(mode) : VerifyResultOn(resp)

\* test_board_creation_validation: get_tournament_id_by_name('past_tournament')
ValidationGetPastOn(resp) ==
    /\ mode = "fresh_validation"
    /\ pc = "get_past"
    /\    LET q == fresh_query_state(resp, player_chain_id)
          IN  /\ Sent(Req("state", "main", "", 0), resp,
                      fresh_make_graphql_request(resp, TRUE))
              /\ player_chain_id' = q.player_chain_id
              /\ polls' = Append(polls, Converged(q.state))
              /\ past_tournament_id' =
                    get_tournament_id_by_name(q.state, "past_tournament", Username(mode))
    /\ pc' = "get_active"
    /\ UNCHANGED << argv, board_tests, streaming, all_accessible, selfv, loopv, filtering_success, validation_success,
                    active_tournament_id, success_count, total_tests, all_status_ok, checks,
                    board_id, runv >>

\* ValidationGetPast, for every answer the service may give
ValidationGetPast ==
    /\ mode = "fresh_validation"
    /\ pc = "get_past"
    /\ \E resp \in StateResponses(mode) : ValidationGetPastOn(resp)

\* test_board_creation_validation: get_tournament_id_by_name('active_tournament')
ValidationGetActiveOn(resp) ==
    /\ mode = "fresh_validation"
    /\ pc = "get_active"
    /\    LET q == fresh_query_state(resp, player_chain_id)
          IN  /\ Sent(Req("state", "main", "", 0), resp,
                      fresh_make_graphql_request(resp, TRUE))
              /\ player_chain_id' = q.player_chain_id
              /\ polls' = << >>
              /\ active_tournament_id' =
                    get_tournament_id_by_name(q.state, "active_tournament", Username(mode))
    /\ pc' = "check_past"
    /\ UNCHANGED << argv, board_tests, streaming, all_accessible, selfv, loopv, filtering_success, validation_success,
                    past_tournament_id, success_count, total_tests, all_status_ok, checks,
                    board_id, runv >>

\* ValidationGetActive, for every answer the service may give
ValidationGetActive ==
    /\ mode = "fresh_validation"
    /\ pc = "get_active"
    /\ \E resp \in StateResponses(mode) : ValidationGetActiveOn(resp)

\* the messages the except clauses of test_board_creation_validation accept
ValidationPanics == {"http error 500: runtime error", "expired", "not active",
                     "not found in cache"}

\* whether the expired-tournament check counts as passed: only the except
\* clause of the try around create_board increments success_count
PastCheckPassed(call) == call.raised \in ValidationPanics

\* whether the active-tournament check counts as passed: a board id, or the
\* tolerated HTTP 500 runtime error in the except clause
ActiveCheckPassed(call) ==
    IF call.raised = "no" THEN Truthy(call.ret)
    ELSE call.raised = "http error 500: runtime error"

\* test_board_creation_validation: the expired-tournament check
ValidationCheckPastOn(r1, r2) ==
    /\ mode = "fresh_validation"
    /\ pc = "check_past"
    /\ IF Truthy(past_tournament_id)
       THEN    LET call == fresh_create_board(player_chain_id, Username(mode),
                                              past_tournament_id, 10000000, r1, r2)
               IN  /\ Called(call)
                   /\ total_tests' = total_tests + 1
                   /\ success_count' = IF PastCheckPassed(call) THEN success_count + 1
                                       ELSE success_count
                   /\ checks' = [checks EXCEPT !.past = CheckOutcome(call)]
                   /\ board_id' = call.ret
       ELSE UNCHANGED << histv, total_tests, success_count,
                         checks, board_id >>
    /\ pc' = "check_active"
    /\ UNCHANGED << argv, board_tests, polls, streaming, all_accessible, selfv, player_chain_id, loopv, filtering_success,
                    validation_success, past_tournament_id, active_tournament_id,
                    all_status_ok, runv >>

\* ValidationCheckPast, for every answer the service may give
ValidationCheckPast ==
    /\ mode = "fresh_validation"
    /\ pc = "check_past"
    /\ \E r1 \in MutationResponses({"ack"}), r2 \in BoardsResponses(mode) : ValidationCheckPastOn(r1, r2)

\* a verdict that is satisfied by one passed check
ValidationVerdictAnyPassed(success, total) == IF total > 0 THEN success > 0 ELSE TRUE

\* the value test_board_creation_validation returns
ValidationVerdict(success, total) == IF total > 0 THEN success = total ELSE TRUE

\* test_board_creation_validation: the active-tournament check and the verdict
ValidationCheckActiveOn(r1, r2) ==
    /\ mode = "fresh_validation"
    /\ pc = "check_active"
    /\ IF Truthy(active_tournament_id)
       THEN    LET call == fresh_create_board(player_chain_id, Username(mode),
                                              active_tournament_id, 10000000, r1, r2)
               IN  /\ Called(call)
                   /\ total_tests' = total_tests + 1
                   /\ success_count' = IF ActiveCheckPassed(call) THEN success_count + 1
                                       ELSE success_count
                   /\ checks' = [checks EXCEPT !.active = CheckOutcome(call)]
                   /\ board_id' = call.ret
       ELSE UNCHANGED << histv, total_tests, success_count,
                         checks, board_id >>
    /\ validation_success' = ValidationVerdict(success_count', total_tests')
    /\ pc' = "stream_get"
    /\ UNCHANGED << argv, board_tests, polls, streaming, all_accessible, selfv, player_chain_id, loopv, filtering_success,
                    past_tournament_id, active_tournament_id, all_status_ok, runv >>

\* ValidationCheckActive, for every answer the service may give
ValidationCheckActive ==
    /\ mode = "fresh_validation"
    /\ pc = "check_active"
    /\ \E r1 \in MutationResponses({"ack"}), r2 \in BoardsResponses(mode) : ValidationCheckActiveOn(r1, r2)

\* a step 5 that runs whatever the board-creation validation returned
StreamingRunsAlways(tournament_id, validation) == Truthy(tournament_id)

\* step 5 runs `if active_tournament_id and validation_success`
StreamingRuns(tournament_id, validation) == Truthy(tournament_id) /\ validation

\* run_tournament_validation_test step 5: get_tournament_id_by_name('active_tournament')
StreamGetActiveOn(resp) ==
    /\ mode = "fresh_validation"
    /\ pc = "stream_get"
    /\    LET q == fresh_query_state(resp, player_chain_id)
              id == get_tournament_id_by_name(q.state, "active_tournament", Username(mode))
          IN  /\ Sent(Req("state", "main", "", 0), resp,
                      fresh_make_graphql_request(resp, TRUE))
              /\ player_chain_id' = q.player_chain_id
              /\ active_tournament_id' = id
              /\ pc' = IF StreamingRuns(id, validation_success) THEN "stream_board"
                       ELSE "summary"
    /\ UNCHANGED << argv, board_tests, polls, streaming, all_accessible, selfv, loopv, filtering_success, validation_success,
                    past_tournament_id, success_count, total_tests, all_status_ok, checks,
                    board_id, runv >>

\* StreamGetActive, for every answer the service may give
StreamGetActive ==
    /\ mode = "fresh_validation"
    /\ pc = "stream_get"
    /\ \E resp \in StateResponses(mode) : StreamGetActiveOn(resp)

\* step 5: create_board(active_tournament_id)
StreamBoardOn(r1, r2) ==
    /\ mode = "fresh_validation"
    /\ pc = "stream_board"
    /\    LET call == fresh_create_board(player_chain_id, Username(mode),
                                         active_tournament_id, 10000000, r1, r2)
          IN  /\ Called(call)
              /\ board_id' = call.ret
              /\ pc' = IF Truthy(call.ret) THEN "stream_moves" ELSE "summary"
    /\ UNCHANGED << argv, board_tests, polls, streaming, all_accessible, selfv, player_chain_id, loopv, validv, runv >>

\* StreamBoard, for every answer the service may give
StreamBoard ==
    /\ mode = "fresh_validation"
    /\ pc = "stream_board"
    /\ \E r1 \in MutationResponses({"ack"}), r2 \in BoardsResponses(mode) : StreamBoardOn(r1, r2)

\* step 5: make_moves(board_id, num_moves=8); the result is dropped
StreamMoves ==
    /\ mode = "fresh_validation"
    /\ pc = "stream_moves"
    /\ \E resp \in MutationResponses({"ack"}) :
          LET moves == fresh_make_moves(player_chain_id, board_id, 8, resp)
          IN  /\ Called(moves)
              /\ streaming' = [streaming EXCEPT
                                  !.moves = IF moves.ret THEN "ok" ELSE "failed"]
    /\ pc' = "scores"
    /\ UNCHANGED << argv, board_tests, polls, all_accessible, selfv, player_chain_id, loopv, validv, board_id, runv >>


(***************************************************************************)
(* Fresh tester: check_leaderboard_scores and query_leaderboard_chain.     *)
(***************************************************************************)
\* query_leaderboard_chain: the record it returns for leaderboard_id, or None
query_leaderboard_chain(leaderboard_id, resp) ==
    LET result == fresh_make_graphql_request(resp, TRUE)
    IN  IF ResultHasData(result)
        THEN LET lbs == result.body.leaderboards
                 exact == SelectSeq(lbs, LAMBDA lb : lb.leaderboardId = leaderboard_id)
                 named == SelectSeq(lbs, LAMBDA lb : lb.name # "" \/ lb.host # "")
             IN  IF exact # << >> THEN Head(exact)
                 ELSE IF Len(lbs) = 1 THEN lbs[1]
                 ELSE IF named # << >> THEN Head(named)
                 ELSE NoneResult
        ELSE NoneResult

\* the leaderboards check_leaderboard_scores walks through
ScoreLeaderboards(resp, user) ==
    LET result == fresh_make_graphql_request(resp, TRUE)
    IN  IF ResultHasData(result) THEN MyTournaments(result.body.leaderboards, user)
        ELSE << >>

\* check_leaderboard_scores: the leaderboards query on the main chain
check_leaderboard_scoresOn(resp) ==
    /\ mode \in {"fresh_validation", "fresh_full"}
    /\ pc = "scores"
    /\    LET lbs == ScoreLeaderboards(resp, Username(mode))
          IN  /\ Sent(Req("leaderboards", "main", "", 0), resp,
                      fresh_make_graphql_request(resp, TRUE))
              /\ leaderboards' = lbs
              /\ idx' = 1
              /\ pc' = "scores_chain"
    /\ UNCHANGED << argv, board_tests, polls, streaming, all_accessible, selfv, player_chain_id, results, lb_details, validv,
                    board_id, runv >>

\* check_leaderboard_scores, for every answer the service may give
check_leaderboard_scores ==
    /\ mode \in {"fresh_validation", "fresh_full"}
    /\ pc = "scores"
    /\ \E resp \in LeaderboardResponses(mode, {0}) : check_leaderboard_scoresOn(resp)

\* check_leaderboard_scores: one iteration of its loop, the query it sends to
\* the leaderboard's own chain
ScoresChainQuery(resp) ==
    /\ mode \in {"fresh_validation", "fresh_full"}
    /\ pc = "scores_chain"
    /\ idx <= Len(leaderboards)
    /\ Sent(Req("leaderboards", leaderboards[idx].chainId, leaderboards[idx].leaderboardId, 0),
            resp, fresh_make_graphql_request(resp, TRUE))
    /\ idx' = idx + 1
    /\ UNCHANGED << argv, board_tests, polls, all_accessible, selfv, player_chain_id, pc, leaderboards, results, validv,
                    board_id, runv >>

\* check_leaderboard_scores: one iteration of its loop, which queries the
\* leaderboard's own chain and reads totalBoards / totalPlayers of the answer
\* (both are only logged)
ScoresChainOn(resp) ==
    /\ ScoresChainQuery(resp)
    /\ LET lb == leaderboards[idx]
       IN  /\ lb_details' = query_leaderboard_chain(lb.leaderboardId, resp)
           /\ streaming' =
                 IF lb.leaderboardId = active_tournament_id /\ lb_details' # NoneResult
                 THEN [streaming EXCEPT !.total_boards = lb_details'.totalBoards]
                 ELSE streaming

\* ScoresChain, for every answer the service may give
ScoresChain ==
    /\ mode \in {"fresh_validation", "fresh_full"}
    /\ pc = "scores_chain"
    /\ idx <= Len(leaderboards)
    /\ \E resp \in ChainResponses(mode, {1}) : ScoresChainOn(resp)

\* check_leaderboard_scores returns: its locals go out of scope
ScoresReturn ==
    /\ mode \in {"fresh_validation", "fresh_full"}
    /\ pc = "scores_chain"
    /\ idx > Len(leaderboards)
    /\ leaderboards' = << >>
    /\ idx' = 0
    /\ lb_details' = NoneResult
    /\ pc' = "summary"
    /\ UNCHANGED << argv, board_tests, polls, streaming, all_accessible, selfv, player_chain_id, results, validv, board_id, runv, histv >>

\* an overall_success that is satisfied by either check
OverallSuccessEither(filtering, validation) == filtering \/ validation

\* overall_success of run_tournament_validation_test
OverallSuccess(filtering, validation) == filtering /\ validation

\* run_tournament_validation_test: the summary, the return and the exit
ValidationSummary ==
    /\ mode = "fresh_validation"
    /\ pc = "summary"
    /\ Finish(OverallSuccess(filtering_success, validation_success))
    /\ UNCHANGED << argv, board_tests, polls, streaming, all_accessible, selfv, player_chain_id, loopv, validv, board_id, histv >>

(***************************************************************************)
(* Fresh tester, full mode: run_full_test.                                 *)
(***************************************************************************)
\* f"tournament_{i}"
FullName(i) ==
    CASE i = 1 -> "tournament_1"
      [] i = 2 -> "tournament_2"
      [] OTHER -> "tournament_n"

\* one iteration of the loop of create_multiple_tournaments
FullCreate ==
    /\ mode = "fresh_full"
    /\ pc = "create"
    /\ \E resp \in MutationResponses(Tokens) :
          LET tournament_id == fresh_create_tournament_with_time(resp)
          IN  /\ Sent(Req("leaderboardAction", "main", FullName(idx), 0), resp,
                      fresh_make_graphql_request(resp, TRUE))
              /\ IF Truthy(tournament_id)
                 THEN /\ tournaments' = Append(tournaments, tournament_id)
                      /\ IF idx < tournament_count
                         THEN idx' = idx + 1 /\ pc' = "create"
                         ELSE idx' = 0 /\ pc' = "initial_query"
                      /\ UNCHANGED runv
                 ELSE /\ Finish(FALSE)
                      /\ UNCHANGED << tournaments, idx >>
    /\ UNCHANGED << argv, board_tests, polls, streaming, all_accessible, boards, created_tournaments, test_config, player_chain_id,
                    leaderboards, results, lb_details, validv, board_id >>

\* run_full_test step 3: the initial query_state (its result is only logged)
FullInitialQueryOn(resp) ==
    /\ mode = "fresh_full"
    /\ pc = "initial_query"
    /\    /\ Sent(Req("state", "main", "", 0), resp, fresh_make_graphql_request(resp, TRUE))
          /\ player_chain_id' = fresh_query_state(resp, player_chain_id).player_chain_id
    /\ pc' = "boards_query"
    /\ UNCHANGED << argv, board_tests, polls, streaming, all_accessible, selfv, loopv, validv, board_id, runv >>

\* FullInitialQuery, for every answer the service may give
FullInitialQuery ==
    /\ mode = "fresh_full"
    /\ pc = "initial_query"
    /\ \E resp \in StateResponses(mode) : FullInitialQueryOn(resp)

\* how many leaderboards with an id, hosted by `user`, a state response lists
ListedFor(resp, user) ==
    IF resp.kind = "ok"
    THEN Cardinality({ i \in DOMAIN resp.leaderboards :
                         /\ resp.leaderboards[i].leaderboardId # ""
                         /\ resp.leaderboards[i].host = user })
    ELSE 0

\* the tournaments test_board_creation_and_moves walks through
TestedLeaderboards(state, user) ==
    IF StateHasLeaderboards(state) THEN MyTournaments(state.leaderboards, user)
    ELSE << >>

\* test_board_creation_and_moves: its query_state; no state or no tournament of
\* the test user returns {} at once
FullBoardsQueryOn(resp) ==
    /\ mode = "fresh_full"
    /\ pc = "boards_query"
    /\    LET q == fresh_query_state(resp, player_chain_id)
              lbs == TestedLeaderboards(q.state, Username(mode))
          IN  /\ Sent(Req("state", "main", "", 0), resp,
                      fresh_make_graphql_request(resp, TRUE))
              /\ player_chain_id' = q.player_chain_id
              /\ leaderboards' = lbs
              /\ idx' = 1
              /\ results' = << >>
              /\ board_tests' = [listed |-> ListedFor(resp, Username(mode)),
                                 outcomes |-> << >>]
              /\ pc' = "board_loop"
    /\ UNCHANGED << argv, polls, streaming, all_accessible, selfv, lb_details, validv, board_id, runv >>

\* FullBoardsQuery, for every answer the service may give
FullBoardsQuery ==
    /\ mode = "fresh_full"
    /\ pc = "boards_query"
    /\ \E resp \in StateResponses(mode) : FullBoardsQueryOn(resp)

\* the entry test_board_creation_and_moves appends to self.boards
BoardInfo(bid, lb) ==
    [board_id |-> bid, tournament_id |-> lb.leaderboardId, tournament_name |-> lb.name]

\* test_board_creation_and_moves: the creation timestamp of the board of the
\* tournament at index `position` (idx in the code, 0-based) of the list
board_timestamp(position) == 10000000 + position * 10000000

\* test_board_creation_and_moves: one iteration, create_board then make_moves(8)
FullBoardLoopOn(r1, r2, r3) ==
    /\ mode = "fresh_full"
    /\ pc = "board_loop"
    /\ idx <= Len(leaderboards)
    /\    LET lb == leaderboards[idx]
              call == fresh_create_board(player_chain_id, Username(mode),
                                         lb.leaderboardId, board_timestamp(idx - 1),
                                         r1, r2)
              moves == fresh_make_moves(player_chain_id, call.ret, 8, r3)
          IN  IF call.ret # NoneStr
              THEN /\ CalledBoth(call, moves)
                   /\ boards' = Append(boards, BoardInfo(call.ret, lb))
                   /\ results' = Append(results, moves.ret)
                   /\ board_id' = call.ret
                   /\ board_tests' = [board_tests EXCEPT !.outcomes =
                          Append(@, [board |-> call.ret, moves |-> moves.ret])]
              ELSE /\ Called(call)
                   /\ results' = Append(results, FALSE)
                   /\ board_id' = call.ret
                   /\ board_tests' = [board_tests EXCEPT !.outcomes =
                          Append(@, [board |-> call.ret, moves |-> FALSE])]
                   /\ UNCHANGED boards
    /\ idx' = idx + 1
    /\ UNCHANGED << argv, polls, streaming, all_accessible, tournaments, created_tournaments, test_config, player_chain_id,
                    pc, leaderboards, lb_details, validv, runv >>

\* FullBoardLoop, for every answer the service may give
FullBoardLoop ==
    /\ mode = "fresh_full"
    /\ pc = "board_loop"
    /\ idx <= Len(leaderboards)
    /\ \E r1 \in MutationResponses({"ack"}), r2 \in BoardsResponses(mode), r3 \in MutationResponses({"ack"}) : FullBoardLoopOn(r1, r2, r3)

\* test_board_creation_and_moves returns; run_full_test goes on with the
\* additional moves when self.boards is not empty
FullBoardsReturn ==
    /\ mode = "fresh_full"
    /\ pc = "board_loop"
    /\ idx > Len(leaderboards)
    /\ leaderboards' = << >>
    /\ idx' = 1
    /\ pc' = IF boards # << >> THEN "additional_moves" ELSE "final_query"
    /\ UNCHANGED << argv, board_tests, polls, streaming, all_accessible, selfv, player_chain_id, results, lb_details, validv, board_id,
                    runv, histv >>

\* test_additional_moves: make_moves(board_id, 15) for one board of self.boards
test_additional_moves ==
    /\ mode = "fresh_full"
    /\ pc = "additional_moves"
    /\ \E resp \in MutationResponses({"ack"}) :
          Called(fresh_make_moves(player_chain_id, boards[idx].board_id, 15, resp))
    /\ IF idx < Len(boards)
       THEN idx' = idx + 1 /\ pc' = "additional_moves" /\ UNCHANGED results
       ELSE idx' = 1 /\ pc' = "trigger_cycle" /\ UNCHANGED results
    /\ UNCHANGED << argv, board_tests, polls, streaming, all_accessible, selfv, player_chain_id, leaderboards, lb_details, validv,
                    board_id, runv >>

\* number of trigger rounds of test_trigger_cycle_verification
TriggerRounds == 3

\* test_trigger_cycle_verification: make_moves(board_id, 8 + 3 * round_num) for
\* one board of one round; idx counts the (round, board) pairs
test_trigger_cycle_verification ==
    /\ mode = "fresh_full"
    /\ pc = "trigger_cycle"
    /\ LET round_num == (idx - 1) \div Len(boards)
           b == ((idx - 1) % Len(boards)) + 1
       IN  \E resp \in MutationResponses({"ack"}) :
              Called(fresh_make_moves(player_chain_id, boards[b].board_id,
                                      8 + round_num * 3, resp))
    /\ IF idx < TriggerRounds * Len(boards)
       THEN idx' = idx + 1 /\ pc' = "trigger_cycle"
       ELSE idx' = 0 /\ pc' = "final_query"
    /\ UNCHANGED << argv, board_tests, polls, streaming, all_accessible, selfv, player_chain_id, leaderboards, results, lb_details,
                    validv, board_id, runv >>

\* run_full_test step 5: the final query_state (its result is only logged)
FullFinalQueryOn(resp) ==
    /\ mode = "fresh_full"
    /\ pc = "final_query"
    /\    /\ Sent(Req("state", "main", "", 0), resp, fresh_make_graphql_request(resp, TRUE))
          /\ player_chain_id' = fresh_query_state(resp, player_chain_id).player_chain_id
    /\ pc' = "scores"
    /\ UNCHANGED << argv, board_tests, polls, streaming, all_accessible, selfv, loopv, validv, board_id, runv >>

\* FullFinalQuery, for every answer the service may give
FullFinalQuery ==
    /\ mode = "fresh_full"
    /\ pc = "final_query"
    /\ \E resp \in StateResponses(mode) : FullFinalQueryOn(resp)

\* a verdict that is satisfied as soon as one board test was run
FullVerdictNonEmpty(res) == res # << >>

\* the value run_full_test returns for the results of the board tests
FullVerdict(res) == res # << >> /\ \A i \in DOMAIN res : res[i]

\* run_full_test: the summary, the return and the exit
FullSummary ==
    /\ mode = "fresh_full"
    /\ pc = "summary"
    /\ Finish(FullVerdict(results))
    /\ UNCHANGED << argv, board_tests, polls, streaming, all_accessible, selfv, player_chain_id, loopv, validv, board_id, histv >>

(***************************************************************************)
(* Original tester (src/test_tournaments.py): run_full_test.               *)
(***************************************************************************)
\* register_player: True iff the response carries data
orig_register_player(resp) == ResultHasData(orig_make_graphql_request(resp))

\* create_tournament: the mutation's value, or None
orig_create_tournament(resp) ==
    LET result == orig_make_graphql_request(resp)
    IN  IF ResultHasData(result) THEN result.body.value ELSE NoneStr

\* a query_state that keeps the first player chain id it has seen
orig_query_state_first_chain(resp, pcid) ==
    LET result == orig_make_graphql_request(resp)
    IN  IF ResultHasData(result)
        THEN [player_chain_id |-> IF pcid # NoneStr THEN pcid ELSE result.body.player,
              state |-> IF result.body.leaderboards # << >>
                        THEN [tag |-> "data", leaderboards |-> result.body.leaderboards]
                        ELSE [tag |-> "None"]]
        ELSE [player_chain_id |-> pcid, state |-> [tag |-> "empty"]]

\* query_state: as the fresh tester's, for the player "hello"
orig_query_state(resp, pcid) ==
    LET result == orig_make_graphql_request(resp)
    IN  IF ResultHasData(result)
        THEN [player_chain_id |-> IF result.body.player # NoneStr
                                  THEN result.body.player ELSE pcid,
              state |-> IF result.body.leaderboards # << >>
                        THEN [tag |-> "data", leaderboards |-> result.body.leaderboards]
                        ELSE [tag |-> "None"]]
        ELSE [player_chain_id |-> pcid, state |-> [tag |-> "empty"]]

\* create_board: True iff the newBoard response carries data
\* a create_board without the check of self.player_chain_id
orig_create_board_unguarded(pcid, tournament_id, timestamp, r1) ==
    LET result == orig_make_graphql_request(r1)
    IN  [fn |-> "orig_create_board", ret |-> ResultHasData(result),
         sent |-> << Req("newBoard", pcid, tournament_id, timestamp) >>,
         answers |-> << [kind |-> r1.kind, result |-> result] >>]

\* create_board of the original tester: True iff the newBoard response carries data
orig_create_board(pcid, tournament_id, timestamp, r1) ==
    IF ~Truthy(pcid)
    THEN [fn |-> "orig_create_board", ret |-> FALSE, sent |-> << >>, answers |-> << >>]
    ELSE LET result == orig_make_graphql_request(r1)
         IN  [fn |-> "orig_create_board", ret |-> ResultHasData(result),
              sent |-> << Req("newBoard", pcid, tournament_id, timestamp) >>,
              answers |-> << [kind |-> r1.kind, result |-> result] >>]

\* f"test_{i}"
OrigName(i) ==
    CASE i = 1 -> "test_1"
      [] i = 2 -> "test_2"
      [] OTHER -> "test_n"

\* timestamps[idx % len(timestamps)] of test_board_creation, for the i-th tournament
OrigTimestamp(i) == 1000 * (((i - 1) % 5) + 1)

\* the tournaments test_board_creation walks through: no filter on the host
OrigTournaments(state) ==
    IF StateHasLeaderboards(state)
    THEN SelectSeq(state.leaderboards, LAMBDA lb : Truthy(lb.leaderboardId))
    ELSE << >>

\* run_full_test step 1
OrigRegister ==
    /\ mode = "orig_full"
    /\ pc = "register"
    /\ \E resp \in MutationResponses({"PC1"}) :
          /\ Sent(Req("registerPlayer", "main", Username(mode), 0), resp,
                  orig_make_graphql_request(resp))
          /\ IF orig_register_player(resp)
             THEN /\ pc' = "create"
                  /\ idx' = 1
                  /\ UNCHANGED runv
             ELSE /\ Finish(FALSE)
                  /\ UNCHANGED idx
    /\ UNCHANGED << argv, board_tests, polls, streaming, all_accessible, selfv, player_chain_id, leaderboards, results, lb_details,
                    validv, board_id >>

\* one iteration of the loop of create_multiple_tournaments
OrigCreate ==
    /\ mode = "orig_full"
    /\ pc = "create"
    /\ \E resp \in MutationResponses(Tokens) :
          LET tournament_id == orig_create_tournament(resp)
          IN  /\ Sent(Req("leaderboardAction", "main", OrigName(idx), 0), resp,
                      orig_make_graphql_request(resp))
              /\ IF Truthy(tournament_id)
                 THEN /\ tournaments' = Append(tournaments, tournament_id)
                      /\ IF idx < tournament_count
                         THEN idx' = idx + 1 /\ pc' = "create"
                         ELSE idx' = 0 /\ pc' = "initial_query"
                      /\ UNCHANGED runv
                 ELSE /\ Finish(FALSE)
                      /\ UNCHANGED << tournaments, idx >>
    /\ UNCHANGED << argv, board_tests, polls, streaming, all_accessible, boards, created_tournaments, test_config, player_chain_id,
                    leaderboards, results, lb_details, validv, board_id >>

\* run_full_test step 3: the initial query_state (its result is dropped)
OrigInitialQuery ==
    /\ mode = "orig_full"
    /\ pc = "initial_query"
    /\ \E resp \in StateResponses(mode) :
          /\ Sent(Req("state", "main", "", 0), resp, orig_make_graphql_request(resp))
          /\ player_chain_id' = orig_query_state(resp, player_chain_id).player_chain_id
    /\ pc' = "boards_query"
    /\ UNCHANGED << argv, board_tests, polls, streaming, all_accessible, selfv, loopv, validv, board_id, runv >>

\* test_board_creation: its query_state
OrigBoardsQuery ==
    /\ mode = "orig_full"
    /\ pc = "boards_query"
    /\ \E resp \in StateResponses(mode) :
          LET q == orig_query_state(resp, player_chain_id)
          IN  /\ Sent(Req("state", "main", "", 0), resp, orig_make_graphql_request(resp))
              /\ player_chain_id' = q.player_chain_id
              /\ leaderboards' = OrigTournaments(q.state)
              /\ idx' = 1
              /\ results' = << >>
              /\ pc' = "board_loop"
    /\ UNCHANGED << argv, board_tests, polls, streaming, all_accessible, selfv, lb_details, validv, board_id, runv >>

\* test_board_creation: one iteration, create_board for one tournament
OrigBoardLoop ==
    /\ mode = "orig_full"
    /\ pc = "board_loop"
    /\ idx <= Len(leaderboards)
    /\ \E r1 \in MutationResponses({"ack"}) :
          LET call == orig_create_board(player_chain_id, leaderboards[idx].leaderboardId,
                                        OrigTimestamp(idx), r1)
          IN  /\ Called(call)
              /\ results' = Append(results, call.ret)
    /\ idx' = idx + 1
    /\ UNCHANGED << argv, board_tests, polls, streaming, all_accessible, selfv, player_chain_id, pc, leaderboards, lb_details, validv,
                    board_id, runv >>

\* test_board_creation returns
OrigBoardsReturn ==
    /\ mode = "orig_full"
    /\ pc = "board_loop"
    /\ idx > Len(leaderboards)
    /\ leaderboards' = << >>
    /\ idx' = 0
    /\ pc' = "final_query"
    /\ UNCHANGED << argv, board_tests, polls, streaming, all_accessible, selfv, player_chain_id, results, lb_details, validv, board_id,
                    runv, histv >>

\* run_full_test step 5: the final query_state (only logged)
OrigFinalQuery ==
    /\ mode = "orig_full"
    /\ pc = "final_query"
    /\ \E resp \in StateResponses(mode) :
          /\ Sent(Req("state", "main", "", 0), resp, orig_make_graphql_request(resp))
          /\ player_chain_id' = orig_query_state(resp, player_chain_id).player_chain_id
    /\ pc' = "summary"
    /\ UNCHANGED << argv, board_tests, polls, streaming, all_accessible, selfv, loopv, validv, board_id, runv >>

\* the value run_full_test returns for the results of test_board_creation
OrigVerdict(res) == res # << >> /\ \A i \in DOMAIN res : res[i]

\* run_full_test: the summary, the return and the exit
OrigSummary ==
    /\ mode = "orig_full"
    /\ pc = "summary"
    /\ Finish(OrigVerdict(results))
    /\ UNCHANGED << argv, board_tests, polls, streaming, all_accessible, selfv, player_chain_id, loopv, validv, board_id, histv >>

(***************************************************************************)
(* Coordinator (src/stress_test_coordinator.py): run_coordinator_setup.    *)
(***************************************************************************)
\* a register_coordinator that reports success whatever the response
register_coordinator_unchecked(resp) == TRUE

\* register_coordinator: True iff the response carries data
register_coordinator(resp) == ResultHasData(coord_make_graphql_request(resp, TRUE))

\* f"{i}" for i in range(num_tournaments); the model counts from 1
CoordName(i) ==
    CASE i = 1 -> "0"
      [] i = 2 -> "1"
      [] OTHER -> "n"

\* tournament_configs of create_stress_test_tournaments
tournament_configs(num_tournaments) ==
    [i \in 1..num_tournaments |-> [name |-> CoordName(i), start_time |-> 0, end_time |-> 0]]

\* the leaderboardAction(Create) request built from one config
CreateReq(config) ==
    [op |-> "leaderboardAction", chain |-> "main", app |-> app_id, arg |-> config.name, n |-> 0,
     startTime |-> config.start_time, endTime |-> config.end_time]

\* a stored record that leaves the host empty
CoordCreatedRecordNoHost(name, user, tournament_result) ==
    [name |-> name, host |-> "", creation_result |-> tournament_result]

\* the record create_stress_test_tournaments stores for a created tournament
CoordCreatedRecord(name, user, tournament_result) ==
    [name |-> name, host |-> user, creation_result |-> tournament_result]

\* the entry query_tournament_details stores for one leaderboard
TournamentDetails(lb) ==
    [id |-> lb.leaderboardId, name |-> lb.name, chainId |-> lb.chainId,
     totalBoards |-> lb.totalBoards]

\* the tournament_details list of query_tournament_details: one entry per
\* leaderboard with an id hosted by the coordinator; << >> when the request failed
tournament_details(resp, user) ==
    LET result == coord_make_graphql_request(resp, TRUE)
        lbs == IF ResultHasData(result) THEN MyTournaments(result.body.leaderboards, user)
               ELSE << >>
    IN  [i \in DOMAIN lbs |-> TournamentDetails(lbs[i])]

\* whether verify_tournament_accessibility finds a tournament accessible
Accessible(resp) == ResultHasData(coord_make_graphql_request(resp, FALSE))

\* run_coordinator_setup step 1
CoordRegister ==
    /\ mode = "coordinator"
    /\ pc = "register"
    /\ \E resp \in MutationResponses({"PC1"}) :
          /\ Sent(Req("registerPlayer", "main", Username(mode), 0), resp,
                  coord_make_graphql_request(resp, TRUE))
          /\ IF register_coordinator(resp)
             THEN /\ pc' = "create"
                  /\ idx' = 1
                  /\ UNCHANGED runv
             ELSE /\ Finish(FALSE)
                  /\ UNCHANGED idx
    /\ UNCHANGED << argv, board_tests, polls, streaming, all_accessible, selfv, player_chain_id, leaderboards, results,
                    lb_details, validv, board_id >>

\* a creation loop that goes on with the next tournament after a failed creation
create_stress_test_tournaments_continuing ==
    /\ mode = "coordinator"
    /\ pc = "create"
    /\ \E resp \in MutationResponses(Tokens) :
          LET result == coord_make_graphql_request(resp, TRUE)
              config == tournament_configs(tournament_count)[idx]
          IN  /\ Sent(CreateReq(config), resp, result)
              /\ created_tournaments' =
                    IF ResultHasData(result)
                    THEN Append(created_tournaments,
                                CoordCreatedRecord(config.name, Username(mode),
                                                   result.body.value))
                    ELSE created_tournaments
              /\ IF idx < tournament_count
                 THEN idx' = idx + 1 /\ pc' = "create"
                 ELSE idx' = 0 /\ pc' = "details"
              /\ UNCHANGED runv
    /\ UNCHANGED << argv, board_tests, polls, streaming, all_accessible, tournaments, boards, test_config,
                    player_chain_id, leaderboards, results, lb_details, validv, board_id >>

\* one iteration of the loop of create_stress_test_tournaments
create_stress_test_tournaments ==
    /\ mode = "coordinator"
    /\ pc = "create"
    /\ \E resp \in MutationResponses(Tokens) :
          LET result == coord_make_graphql_request(resp, TRUE)
              config == tournament_configs(tournament_count)[idx]
          IN  /\ Sent(CreateReq(config), resp, result)
              /\ IF ResultHasData(result)
                 THEN /\ created_tournaments' =
                            Append(created_tournaments,
                                   CoordCreatedRecord(config.name, Username(mode),
                                                      result.body.value))
                      /\ IF idx < tournament_count
                         THEN idx' = idx + 1 /\ pc' = "create"
                         ELSE idx' = 0 /\ pc' = "details"
                      /\ UNCHANGED runv
                 ELSE /\ Finish(FALSE)
                      /\ UNCHANGED << created_tournaments, idx >>
    /\ UNCHANGED << argv, board_tests, polls, streaming, all_accessible, tournaments, boards, test_config,
                    player_chain_id, leaderboards, results, lb_details, validv, board_id >>

\* run_coordinator_setup step 3
query_tournament_details ==
    /\ mode = "coordinator"
    /\ pc = "details"
    /\ \E resp \in LeaderboardResponses(mode, {0}) :
          LET details == tournament_details(resp, Username(mode))
          IN  /\ Sent(Req("leaderboards", "main", "", 0), resp,
                      coord_make_graphql_request(resp, TRUE))
              /\ IF details # << >>
                 THEN /\ test_config' = [test_config EXCEPT !.tournaments = details]
                      /\ pc' = "save"
                      /\ UNCHANGED runv
                 ELSE /\ Finish(FALSE)
                      /\ UNCHANGED test_config
    /\ UNCHANGED << argv, board_tests, polls, streaming, all_accessible, tournaments, boards, created_tournaments,
                    player_chain_id, loopv, validv, board_id >>

\* run_coordinator_setup step 4: writing the file succeeds or raises
save_test_config ==
    /\ mode = "coordinator"
    /\ pc = "save"
    /\ \E written \in BOOLEAN :
          IF written
          THEN /\ test_config' = [test_config EXCEPT !.exported = TRUE]
               /\ pc' = "access"
               /\ idx' = 1
               /\ all_accessible' = TRUE
               /\ UNCHANGED runv
          ELSE /\ Finish(FALSE)
               /\ UNCHANGED << test_config, idx, all_accessible >>
    /\ UNCHANGED << argv, board_tests, polls, streaming, tournaments, boards, created_tournaments, player_chain_id,
                    leaderboards, results, lb_details, validv, board_id, histv >>

\* verify_tournament_accessibility: one iteration of its loop
verify_tournament_accessibility ==
    /\ mode = "coordinator"
    /\ pc = "access"
    /\ idx <= Len(test_config.tournaments)
    /\ \E resp \in LeaderboardResponses(mode, {0}) :
          LET tournament == test_config.tournaments[idx]
          IN  /\ Sent(Req("leaderboards", tournament.chainId, "", 0), resp,
                      coord_make_graphql_request(resp, FALSE))
              /\ all_accessible' = (all_accessible /\ Accessible(resp))
    /\ idx' = idx + 1
    /\ UNCHANGED << argv, board_tests, polls, streaming, selfv, player_chain_id, pc, leaderboards, results, lb_details,
                    validv, board_id, runv >>

\* run_coordinator_setup: the accessibility verdict is only a warning; the
\* setup returns True
CoordSummary ==
    /\ mode = "coordinator"
    /\ pc = "access"
    /\ idx > Len(test_config.tournaments)
    /\ Finish(TRUE)
    /\ UNCHANGED << argv, board_tests, polls, streaming, all_accessible, selfv, player_chain_id, loopv, validv,
                    board_id, histv >>

Next ==
    \/ FreshRegister
    \/ ValidationCreate
    \/ trigger_tournament_update
    \/ VerifyFirstQuery
    \/ VerifyForceBlock
    \/ VerifyResult
    \/ ValidationGetPast
    \/ ValidationGetActive
    \/ ValidationCheckPast
    \/ ValidationCheckActive
    \/ StreamGetActive
    \/ StreamBoard
    \/ StreamMoves
    \/ check_leaderboard_scores
    \/ ScoresChain
    \/ ScoresReturn
    \/ ValidationSummary
    \/ FullCreate
    \/ FullInitialQuery
    \/ FullBoardsQuery
    \/ FullBoardLoop
    \/ FullBoardsReturn
    \/ test_additional_moves
    \/ test_trigger_cycle_verification
    \/ FullFinalQuery
    \/ FullSummary
    \/ OrigRegister
    \/ OrigCreate
    \/ OrigInitialQuery
    \/ OrigBoardsQuery
    \/ OrigBoardLoop
    \/ OrigBoardsReturn
    \/ OrigFinalQuery
    \/ OrigSummary
    \/ CoordRegister
    \/ create_stress_test_tournaments
    \/ query_tournament_details
    \/ save_test_config
    \/ verify_tournament_accessibility
    \/ CoordSummary

Spec == Init /\ [][Next]_vars

\* A driver is one sequential process: after a statement returns, the next
\* one runs. Every request is posted with a timeout, so each call of
\* make_graphql_request returns, and every time.sleep has a fixed length:
\* a step that is enabled is eventually taken.
FairSpec == Init /\ [][Next]_vars /\ WF_vars(Next)

(***************************************************************************)
(* Call-level runs: one call of one method of a tester, with arguments     *)
(* drawn from bounded sets, on a tester whose player chain id is known or  *)
(* not.                                                                    *)
(***************************************************************************)
\* largest num_moves a call-level run passes to make_moves
MaxMoves == 6

\* longest list of own tournaments a call-level run of one iteration of
\* test_board_creation_and_moves is placed in
MaxListed == 10

\* the calls a call-level run makes
UnitArgs ==
    [fn : {"make_moves"}, arg : BoardIds, n : 0..MaxMoves]
    \cup [fn : {"create_board", "orig_create_board"}, arg : {"L1"}, n : {1000}]
    \cup [fn : {"make_graphql_request"}, arg : {"main_url", "player_url"}, n : {0},
          tester : {"fresh", "coord", "orig"}, show_error : BOOLEAN]
    \cup [fn : {"query_state"}, arg : {""}, n : {0}, tester : {"fresh", "orig"}]
    \cup [fn : {"board_iteration"}, arg : {"L1"}, n : 0..(MaxListed - 1)]

UnitInit ==
    /\ mode = "unit"
    /\ tournament_count = 0
    /\ pc = "call"
    /\ player_chain_id \in PlayerChains \cup {NoneStr}
    /\ tournaments = << >>
    /\ boards = << >>
    /\ created_tournaments = << >>
    /\ test_config = [tournaments |-> << >>, exported |-> FALSE]
    /\ leaderboards = << >>
    /\ idx = 0
    /\ results = << >>
    /\ filtering_success = FALSE
    /\ validation_success = FALSE
    /\ past_tournament_id = NoneStr
    /\ active_tournament_id = NoneStr
    /\ success_count = 0
    /\ total_tests = 0
    /\ board_id = NoneStr
    /\ lb_details = NoneResult
    /\ all_status_ok = FALSE
    /\ all_accessible = FALSE
    /\ checks = [past |-> NotRun, active |-> NotRun]
    /\ retval = FALSE
    /\ exit_code = -1
    /\ log = << >>
    /\ fatal_transport = FALSE
    /\ outcomes = {}
    /\ registered = FALSE
    /\ seen_chains = {}
    /\ returned_boards = {}
    /\ last_chain = NoneStr
    /\ board_tests = NotTested
    /\ polls = << >>
    /\ streaming = NotStreamed
    /\ call_args \in UnitArgs
    /\ last_call = NoCall

\* what a call-level action leaves alone: the call changes no field of the tester
unitframe == << mode, tournament_count, call_args, board_tests, polls, streaming, all_accessible, selfv,
               player_chain_id, loopv, validv, board_id, runv >>

\* one call of make_moves(board_id, num_moves)
UnitMakeMoves ==
    /\ mode = "unit"
    /\ pc = "call"
    /\ call_args.fn = "make_moves"
    /\ \E resp \in MutationResponses({"ack"}) :
          LET call == fresh_make_moves(player_chain_id, call_args.arg, call_args.n, resp)
          IN  /\ last_call' = call
              /\ Called(call)
    /\ pc' = "returned"
    /\ UNCHANGED unitframe

\* one call of the fresh tester's create_board(tournament_id, timestamp)
UnitCreateBoard ==
    /\ mode = "unit"
    /\ pc = "call"
    /\ call_args.fn = "create_board"
    /\ \E r1 \in MutationResponses({"ack"}), r2 \in BoardsResponses("fresh_full") :
          LET call == fresh_create_board(player_chain_id, Username("fresh_full"),
                                         call_args.arg, call_args.n, r1, r2)
          IN  /\ last_call' = call
              /\ Called(call)
    /\ pc' = "returned"
    /\ UNCHANGED unitframe

\* one call of the original tester's create_board(tournament_id, timestamp)
UnitOrigCreateBoard ==
    /\ mode = "unit"
    /\ pc = "call"
    /\ call_args.fn = "orig_create_board"
    /\ \E r1 \in MutationResponses({"ack"}) :
          LET call == orig_create_board(player_chain_id, call_args.arg, call_args.n, r1)
          IN  /\ last_call' = call
              /\ Called(call)
    /\ pc' = "returned"
    /\ UNCHANGED unitframe

\* one call of make_graphql_request(url, query, show_error=...)
UnitRequest ==
    /\ mode = "unit"
    /\ pc = "call"
    /\ call_args.fn = "make_graphql_request"
    /\ \E resp \in MutationResponses({"ack"}) \cup { Failure(k) : k \in MalformedKinds } :
          LET call == make_graphql_request(call_args.tester, call_args.arg, resp,
                                           call_args.show_error)
          IN  /\ last_call' = call
              /\ Called(call)
    /\ pc' = "returned"
    /\ UNCHANGED unitframe

\* one call of query_state() of the fresh or of the original tester
UnitQueryState ==
    /\ mode = "unit"
    /\ pc = "call"
    /\ call_args.fn = "query_state"
    /\ LET m == IF call_args.tester = "fresh" THEN "fresh_full" ELSE "orig_full"
       IN  \E resp \in StateResponses(m) :
              LET q == IF call_args.tester = "fresh"
                       THEN fresh_query_state(resp, player_chain_id)
                       ELSE orig_query_state(resp, player_chain_id)
                  result == make_graphql_request(call_args.tester, "main", resp, TRUE).ret
                  req == Req("state", "main", "", 0)
              IN  /\ last_call' = [fn |-> "query_state", ret |-> q.state,
                                   sent |-> << req >>,
                                   answers |-> << [kind |-> resp.kind, result |-> result] >>]
                  /\ Sent(req, resp, result)
                  /\ player_chain_id' = q.player_chain_id
    /\ pc' = "returned"
    /\ UNCHANGED << mode, tournament_count, call_args, board_tests, polls, streaming,
                    all_accessible, selfv, loopv, validv, board_id, runv >>

\* one iteration of the loop of test_board_creation_and_moves, for the
\* tournament at position call_args.n (0-based) of the list: create_board
\* with the position's timestamp, then make_moves(board_id, 8)
UnitBoardIteration ==
    /\ mode = "unit"
    /\ pc = "call"
    /\ call_args.fn = "board_iteration"
    /\ \E r1 \in MutationResponses({"ack"}), r2 \in BoardsResponses("fresh_full"),
          r3 \in MutationResponses({"ack"}) :
          LET lb == Lb(call_args.arg, "tournament_1", Username("fresh_full"), 0)
              call == fresh_create_board(player_chain_id, Username("fresh_full"),
                                         lb.leaderboardId, board_timestamp(call_args.n),
                                         r1, r2)
              moves == fresh_make_moves(player_chain_id, call.ret, 8, r3)
          IN  IF call.ret # NoneStr
              THEN /\ CalledBoth(call, moves)
                   /\ last_call' = [fn |-> "board_iteration", ret |-> moves.ret,
                                    sent |-> call.sent \o moves.sent,
                                    answers |-> call.answers \o moves.answers,
                                    variables |-> moves.variables]
                   /\ boards' = Append(boards, BoardInfo(call.ret, lb))
                   /\ results' = Append(results, moves.ret)
                   /\ board_id' = call.ret
              ELSE /\ Called(call)
                   /\ last_call' = [fn |-> "board_iteration", ret |-> FALSE,
                                    sent |-> call.sent, answers |-> call.answers,
                                    variables |-> NoneResult]
                   /\ results' = Append(results, FALSE)
                   /\ board_id' = call.ret
                   /\ UNCHANGED boards
    /\ pc' = "returned"
    /\ UNCHANGED << mode, tournament_count, call_args, board_tests, polls, streaming,
                    all_accessible, tournaments, created_tournaments, test_config,
                    player_chain_id, leaderboards, idx, lb_details, validv, runv >>

UnitNext ==
    \/ UnitRequest
    \/ UnitBoardIteration
    \/ UnitQueryState
    \/ UnitMakeMoves
    \/ UnitCreateBoard
    \/ UnitOrigCreateBoard

UnitSpec == UnitInit /\ [][UnitNext]_vars

(***************************************************************************)
(* Properties.                                                             *)
(***************************************************************************)
\* the requests of the log with a given operation
Requests(op) == { i \in DOMAIN log : log[i].op = op }

\* C1: requests are causally ordered. A leaderboardAction(Create) request is
\* in the log only if a registerPlayer request of the run was answered with
\* data, a newBoard request goes to a player chain id that a state query of
\* the run returned, and a makeMoves request names a board id that a
\* create_board call of the run returned.
C1_CausalOrder ==
    /\ \A i \in Requests("leaderboardAction") : registered
    /\ \A i \in Requests("newBoard") : log[i].chain \in seen_chains
    /\ \A i \in Requests("makeMoves") : log[i].arg \in returned_boards

\* a run that has sent a creation, a newBoard and a makeMoves request
C1_Witness ==
    /\ Requests("leaderboardAction") # {}
    /\ Requests("newBoard") # {}
    /\ Requests("makeMoves") # {}

\* the leaderboardIds the service lists for the tournaments of the run mode
ServiceIds == { IdOf(n) : n \in Names(mode) }

\* C2: the value a leaderboardAction(Create) mutation returns is never used
\* as a tournament id. The leaderboardId argument of every newBoard request
\* and every id of the exported configuration is an id the service lists in
\* its leaderboards responses and is none of the creation mutation's values.
C2_TokenNeverUsedAsId ==
    /\ \A i \in Requests("newBoard") :
          log[i].arg \in ServiceIds /\ log[i].arg \notin Tokens
    /\ \A i \in DOMAIN test_config.tournaments :
          /\ test_config.tournaments[i].id \in ServiceIds
          /\ test_config.tournaments[i].id \notin Tokens

\* a full run that kept a creation value and has sent a newBoard request
C2_Witness ==
    /\ mode = "fresh_full"
    /\ "T1" \in Range(tournaments)
    /\ Requests("newBoard") # {}

\* C3: the record query_leaderboard_chain returns for the tournament that
\* check_leaderboard_scores is checking is a record of that tournament: it
\* has the requested leaderboardId, or the tournament's name and host.
C3_NoCrossAttribution ==
    (pc = "scores_chain" /\ idx > 1 /\ "tag" \notin DOMAIN lb_details) =>
        LET lb == leaderboards[idx - 1]
        IN  \/ lb_details.leaderboardId = lb.leaderboardId
            \/ (lb_details.name = lb.name /\ lb_details.host = lb.host)

\* C4: verify_active_tournaments returns True only if every created scenario
\* is visible in the state query exactly when its should_be_active is true.
C4_SuccessOnlyIfEveryStatusOk ==
    (mode = "fresh_validation" /\ filtering_success) => all_status_ok

\* C5: in validation mode the run returns True exactly when the visibility
\* check and the board-creation validation check both returned True, and the
\* process exits with 0 exactly when the run returns True, with 1 otherwise.
C5_OverallIsConjunction ==
    mode = "fresh_validation" =>
        IF pc = "done"
        THEN /\ retval = (filtering_success /\ validation_success)
             /\ exit_code = (IF retval THEN 0 ELSE 1)
        ELSE exit_code = -1

\* a validation run that returned True and exited with 0
C5_Witness ==
    /\ mode = "fresh_validation"
    /\ pc = "done"
    /\ retval
    /\ exit_code = 0

\* a transport failure was returned by some request of the run
TransportFailureSeen == \E o \in outcomes : o.class = "transport"

C7_RejectionDistinctFromTransport ==
    /\ \A a, b \in outcomes :
          (a.class = "rejection" /\ b.class = "transport") => a.ret # b.ret
    /\ (checks.past.class = "rejection" /\ checks.active.class = "transport")
          => checks.past.ret # checks.active.ret

\* C8: when the service rejects the newBoard request against past_tournament
\* and the board in active_tournament is created, the board-creation
\* validation returns True.
C8_RejectedPastCountsAsPassed ==
    (mode = "fresh_validation" /\ checks.past.class = "rejection"
        /\ checks.active.class = "ok" /\ Truthy(checks.active.ret))
    => validation_success

\* the board-creation validation has returned
ValidationReturned ==
    mode = "fresh_validation"
    /\ pc \in {"stream_get", "stream_board", "stream_moves", "scores", "scores_chain",
               "summary", "done"}

\* C9: in validation mode the validation result is True only if a board
\* creation was attempted for each of the four scenarios (past_tournament,
\* future_tournament, active_tournament, eternal_tournament).
C9_AllFourAttempted ==
    (ValidationReturned /\ validation_success) =>
        \A n \in Names("fresh_validation") :
            \E i \in Requests("newBoard") : log[i].arg = IdOf(n)

\* the create_board calls that reported a created board
ReportedBoards ==
    IF mode = "orig_full" THEN { i \in DOMAIN results : results[i] }
    ELSE IF mode = "fresh_full" THEN DOMAIN boards
    ELSE {}

\* C10: no tester reports a board as created on the newBoard response alone:
\* every reported board was confirmed by a follow-up boards query.
C10_BoardConfirmedByQuery ==
    Cardinality(ReportedBoards) <= Cardinality(Requests("boards"))

\* the digit a decimal character stands for
DigitValue(c) == CHOOSE d \in 0..9 : DigitChars[d + 1] = c

\* the number a sequence of decimal characters denotes
RECURSIVE IntOf(_)
IntOf(digits) ==
    IF digits = << >> THEN 0
    ELSE 10 * IntOf(SubSeq(digits, 1, Len(digits) - 1)) + DigitValue(digits[Len(digits)])

\* a make_moves call of a call-level run on a tester that knows its player chain
MakeMovesReturned ==
    /\ mode = "unit"
    /\ pc = "returned"
    /\ call_args.fn = "make_moves"
    /\ Truthy(player_chain_id)

\* C11: make_moves(board_id, n) with a known player chain sends exactly one
\* makeMoves request; its moves payload is a JSON array of exactly n pairs,
\* the i-th (0-based) being [P[i mod 4], str(100000000 + 1000*i)] with
\* P = (Down, Right, Down, Left); the timestamps of one payload are strictly
\* increasing and the first two pairs are ["Down","100000000"],
\* ["Right","100001000"].
C11_MovesPayload ==
    MakeMovesReturned =>
        LET n == call_args.n
            payload == last_call.variables.moves
            items == payload.items
            P == << "Down", "Right", "Down", "Left" >>
        IN  /\ log = last_call.sent
            /\ Len(log) = 1
            /\ log[1].op = "makeMoves"
            /\ log[1].arg = call_args.arg
            /\ last_call.variables.boardId = call_args.arg
            /\ payload.json = "array"
            /\ Len(items) = n
            /\ \A k \in 1..n :
                  /\ Len(items[k]) = 2
                  /\ items[k][1] = P[((k - 1) % 4) + 1]
                  /\ Head(items[k][2]) # "0"
                  /\ IntOf(items[k][2]) = 100000000 + 1000 * (k - 1)
            /\ \A k \in 1..(n - 1) : IntOf(items[k][2]) < IntOf(items[k + 1][2])
            /\ n >= 2 =>
                  /\ items[1] = << "Down", << "1", "0", "0", "0", "0", "0", "0", "0", "0" >> >>
                  /\ items[2] = << "Right", << "1", "0", "0", "0", "0", "1", "0", "0", "0" >> >>

\* a make_moves call with more moves than the pattern is long was answered with data
C11_Witness ==
    /\ MakeMovesReturned
    /\ call_args.n > 4
    /\ last_call.ret

\* a call-level run has called create_board or make_moves on a tester that
\* knows no player chain id
CalledWithoutPlayerChain ==
    /\ mode = "unit"
    /\ pc = "returned"
    /\ call_args.fn \in {"make_moves", "create_board", "orig_create_board"}
    /\ player_chain_id = NoneStr

\* C12: create_board (both testers) and make_moves, called while
\* player_chain_id is None, return failure (None / False) without sending a
\* request and without changing the tester's state.
C12_PreconditionSendsNothing ==
    CalledWithoutPlayerChain =>
        /\ last_call.sent = << >>
        /\ log = << >>
        /\ IF call_args.fn = "create_board" THEN last_call.ret = NoneStr
           ELSE last_call.ret = FALSE
        /\ tournaments = << >>
        /\ boards = << >>
        /\ returned_boards = {}

\* the fresh tester's create_board has returned None on the precondition
C12_Witness ==
    /\ CalledWithoutPlayerChain
    /\ call_args.fn = "create_board"
    /\ last_call.ret = NoneStr

\* a call-level run has called make_graphql_request
RequestReturned ==
    /\ mode = "unit"
    /\ pc = "returned"
    /\ call_args.fn = "make_graphql_request"

\* C18: no retries: a call of make_graphql_request of any of the three
\* classes sends exactly one HTTP request, to the given endpoint, whatever the
\* outcome, and changes nothing of the tester's state.
C18_OneRequestPerCall ==
    RequestReturned =>
        /\ Len(last_call.sent) = 1
        /\ last_call.sent[1].chain = call_args.arg
        /\ log = last_call.sent
        /\ tournaments = << >>
        /\ boards = << >>
        /\ created_tournaments = << >>
        /\ test_config = [tournaments |-> << >>, exported |-> FALSE]

\* a call of make_graphql_request has timed out and returned None
C18_Witness ==
    /\ RequestReturned
    /\ last_call.answers[1].kind = "timeout"
    /\ last_call.ret = NoneResult

\* the run has returned one boolean and the process has exited with the
\* matching code
Returned ==
    /\ pc = "done"
    /\ retval \in BOOLEAN
    /\ exit_code \in {0, 1}
    /\ exit_code = ExitCode(retval)

ActivationPolicy(start_time, end_time, now) ==
    (start_time = 0 \/ now >= start_time) /\ (end_time = 0 \/ now <= end_time)

\* C14: for each validation scenario, the should_be_active that verification
\* compares against equals the activation policy evaluated on the scenario's
\* own window at every wall-clock time the run can have reached.
C14_ExpectedMatchesPolicy ==
    mode = "fresh_validation" =>
        \A t \in Range(created_tournaments) : \A now \in VerificationTimes :
            t.should_be_active = ActivationPolicy(t.start_time, t.end_time, now)

\* verification has compared the state against all four scenarios
C14_Witness ==
    /\ mode = "fresh_validation"
    /\ pc = "get_past"
    /\ Len(created_tournaments) = 4
    /\ all_status_ok

\* the steps of run_coordinator_setup that succeeded so far
CoordRegistered == registered
CoordCreatedAll == CoordRegistered /\ Len(created_tournaments) = tournament_count
CoordDetailed == CoordCreatedAll /\ test_config.tournaments # << >>
CoordExported == CoordDetailed /\ test_config.exported

\* the requests of the first three steps, in the order of the steps
CoordOrdered ==
    /\ Len(log) >= tournament_count + 2
    /\ log[1].op = "registerPlayer"
    /\ \A i \in 2..(tournament_count + 1) : log[i].op = "leaderboardAction"
    /\ log[tournament_count + 2].op = "leaderboards"
    /\ log[tournament_count + 2].chain = "main"

\* C15: the coordinator creates every tournament with startTime = 0 and
\* endTime = 0; run_coordinator_setup returns True only if registration, all
\* N creations, the detail query and the export succeeded, in that order; the
\* first failing step ends the run with False and no later step sends a request.
C15_CoordinatorStepsInOrder ==
    mode = "coordinator" =>
        /\ \A i \in Requests("leaderboardAction") :
               log[i].startTime = 0 /\ log[i].endTime = 0
        /\ (pc = "done" /\ retval) => (CoordExported /\ CoordOrdered)
        /\ (pc = "done" /\ ~retval) =>
               /\ ~CoordExported
               /\ Len(log) = IF ~CoordRegistered THEN 1
                             ELSE IF ~CoordCreatedAll THEN Len(created_tournaments) + 2
                             ELSE tournament_count + 2
               /\ Requests("leaderboards") \subseteq {tournament_count + 2}

\* a setup for more than one tournament has returned True
C15_Witness ==
    /\ mode = "coordinator"
    /\ pc = "done"
    /\ retval
    /\ tournament_count > 1

\* C16: when run_coordinator_setup returns True after creating N tournaments,
\* the exported tournaments list has one entry for each of the N created
\* tournament names: exactly the tournaments the coordinator created.
C16_ExportsCreatedTournaments ==
    (mode = "coordinator" /\ pc = "done" /\ retval) =>
        /\ Len(test_config.tournaments) = tournament_count
        /\ { d.name : d \in Range(test_config.tournaments) }
              = { t.name : t \in Range(created_tournaments) }

\* the number of tournaments the creation loop of the run is to create
ToCreate ==
    IF mode = "fresh_validation" THEN Len(tournament_scenarios(CreationTime))
    ELSE tournament_count

\* the loop over the listed tournaments has ended and every one of them has a result
EveryListedTournamentTested ==
    (mode \in {"fresh_full", "orig_full"} /\ pc = "board_loop" /\ idx > Len(leaderboards))
        => Len(results) = Len(leaderboards)

\* the active-tournament check ran whatever the expired-tournament check gave
ActiveCheckedAfterPast ==
    (mode = "fresh_validation" /\ pc = "stream_get" /\ Truthy(active_tournament_id))
        => checks.active.class # "not_run"

C20_SuccessNeedsTotalBoards ==
    (mode = "fresh_validation" /\ pc = "done" /\ retval) =>
        /\ streaming.moves = "ok"
        /\ streaming.total_boards >= 1

\* C20, amended: step 5 runs only after the board-creation validation
\* returned True, and what it observes (the result of make_moves, the
\* totalBoards read, a failed leaderboard-chain query) is only logged: the
\* run returns filtering_success and validation_success.
C20_StreamingOnlyLogged ==
    mode = "fresh_validation" =>
        /\ streaming.moves # "not_run" => validation_success
        /\ streaming.total_boards # -1 => streaming.moves # "not_run"
        /\ pc = "done" /\ streaming.moves # "not_run"
              => retval = (filtering_success /\ validation_success)

\* a validation run has returned True although make_moves failed and no
\* board was counted for the active tournament
C20_Witness ==
    /\ mode = "fresh_validation"
    /\ pc = "done"
    /\ retval
    /\ streaming.moves = "failed"
    /\ streaming.total_boards < 1

\* the kinds of answer that are an HTTP 500: with or without a JSON body
\* that carries the runtime error as "errors"
Http500Kinds == {"http_errors", "http"}

\* C21: when the newBoard request of the active-tournament check is answered
\* with an HTTP 500 carrying a generic runtime error, the board-creation
\* validation counts that check as a success (success_count is incremented
\* for it).
C21_Http500CountsAsSuccess ==
    (ValidationReturned /\ checks.active.kind \in Http500Kinds) => success_count >= 1

\* the requests meant for the main chain and those meant for the player's chain
MainOps == {"registerPlayer", "leaderboardAction", "updateActiveTournaments"}
PlayerOps == {"newBoard", "makeMoves", "boards"}

\* no state query was sent after the i-th request
NoStateQuerySince(i) == \A j \in (i + 1)..Len(log) : log[j].op # "state"

AfterBoardTests ==
    {"additional_moves", "trigger_cycle", "final_query", "scores", "scores_chain", "summary"}

\* the state query listed a tournament of the test user, every listed one was
\* tested, create_board returned a board id for it and make_moves succeeded
EveryListedBoardPlayed ==
    /\ board_tests.listed >= 1
    /\ Len(board_tests.outcomes) = board_tests.listed
    /\ \A i \in DOMAIN board_tests.outcomes :
          board_tests.outcomes[i].board # NoneStr /\ board_tests.outcomes[i].moves

CreateBoardReturned ==
    /\ mode = "unit"
    /\ pc = "returned"
    /\ call_args.fn = "create_board"

\* C24: create_board of the fresh tester sends at most two requests, the
\* newBoard mutation first; the boards query is sent only after the mutation
\* was answered with data and without errors; a board id it returns is the
\* boardId of a board of the boards response whose player is the tester's
\* username and whose leaderboardId is the requested tournament id.
C24_BoardIdFromFollowUpQuery ==
    CreateBoardReturned =>
        LET sent == last_call.sent
            answers == last_call.answers
        IN  /\ log = sent
            /\ Len(sent) <= 2
            /\ Len(answers) = Len(sent)
            /\ Len(sent) >= 1 =>
                  /\ sent[1].op = "newBoard"
                  /\ sent[1].arg = call_args.arg
                  /\ sent[1].chain = player_chain_id
            /\ Len(sent) = 2 =>
                  /\ sent[2].op = "boards"
                  /\ sent[2].chain = player_chain_id
                  /\ answers[1].kind = "ok"
            /\ last_call.ret # NoneStr =>
                  /\ Len(sent) = 2
                  /\ answers[2].kind = "ok"
                  /\ \E b \in Range(answers[2].result.body.boards) :
                        /\ b.boardId = last_call.ret
                        /\ b.player = Username("fresh_full")
                        /\ b.leaderboardId = call_args.arg

\* create_board returned the board id it found in the boards response
C24_Witness ==
    /\ CreateBoardReturned
    /\ Len(last_call.sent) = 2
    /\ last_call.ret = "B1"

\* the records of created_tournaments are those of the first tournaments of
\* tournament_configs, in creation order, hosted by the coordinator
CreatedInOrder(created) ==
    \A i \in DOMAIN created :
        /\ created[i].name = tournament_configs(tournament_count)[i].name
        /\ created[i].host = Username("coordinator")
        /\ created[i].creation_result \in Tokens

\* C25: in bulk-provisioning mode created_tournaments holds one record per
\* successful creation mutation, in creation order, each hosted by the
\* coordinator: a successful creation appends one record and keeps the earlier
\* ones, and the k-th creation failing makes the run return False with exactly
\* the k-1 earlier records kept; no other step changes the list. A failed
\* query_tournament_details leaves test_config unchanged.
C25_CreatedRecordsKept ==
    [][mode = "coordinator" =>
        /\ CreatedInOrder(created_tournaments')
        /\ (pc = "create" /\ pc' # "done") =>
              /\ Len(created_tournaments') = Len(created_tournaments) + 1
              /\ SubSeq(created_tournaments', 1, Len(created_tournaments)) = created_tournaments
              /\ Len(created_tournaments') = idx
        /\ (pc = "create" /\ pc' = "done") =>
              /\ ~retval'
              /\ created_tournaments' = created_tournaments
              /\ Len(created_tournaments') = idx - 1
              /\ Len(log') = idx + 1
              /\ log'[Len(log')].op = "leaderboardAction"
        /\ pc # "create" => created_tournaments' = created_tournaments
        /\ (pc = "details" /\ pc' = "done") =>
              /\ ~retval'
              /\ test_config' = test_config
    ]_vars

\* the second creation of a setup for two tournaments failed and the run
\* returned False with the first record kept
C25_Witness ==
    /\ mode = "coordinator"
    /\ tournament_count = 2
    /\ pc = "done"
    /\ ~retval
    /\ Len(created_tournaments) = 1
    /\ Cardinality(Requests("leaderboardAction")) = 2

\* C26: when the player chain id is known after the first state query of
\* verify_active_tournaments and eternal_tournament is among the created
\* scenarios, a newBoard request (the forced block on the player chain) is
\* sent after that query and before the second state query.
C26_ForcedBlockSent ==
    (/\ mode = "fresh_validation"
     /\ pc = "verify_result"
     /\ Truthy(player_chain_id)
     /\ \E t \in Range(created_tournaments) : t.name = "eternal_tournament")
    => \E i \in Requests("newBoard") : \E j \in Requests("state") : j < i

\* a call-level run has called query_state
QueryStateReturned ==
    /\ mode = "unit"
    /\ pc = "returned"
    /\ call_args.fn = "query_state"

\* C27: query_state (both testers) returns the decoded data whenever the
\* state query succeeded, also when the leaderboards list of the response is
\* empty, and returns the empty dict only when the request failed; it never
\* returns None.
C27_QueryStateReturnsData ==
    QueryStateReturned =>
        /\ last_call.answers[1].kind = "ok" => last_call.ret.tag = "data"
        /\ last_call.ret.tag = "empty" => last_call.answers[1].kind # "ok"
        /\ last_call.ret.tag # "None"

\* the response a call-level make_graphql_request call was answered with
AnswerOf(call) ==
    IF call.answers[1].kind = "ok" THEN [Failure("ok") EXCEPT !.value = "ack"]
    ELSE Failure(call.answers[1].kind)

\* C28: the show_error flag of make_graphql_request (fresh tester and
\* coordinator) affects logging only: the value a call returned equals the
\* value the same response yields with the flag inverted.
C28_ShowErrorOnlyLogs ==
    (RequestReturned /\ call_args.tester \in {"fresh", "coord"}) =>
        last_call.ret = make_graphql_request(call_args.tester, call_args.arg,
                                             AnswerOf(last_call),
                                             ~call_args.show_error).ret

\* the board-creation checks that were performed (create_board was called)
PerformedChecks == { c \in {"past", "active"} : checks[c].class # "not_run" }

\* the run is past the call of test_board_creation_validation and has not
\* ended yet
AfterValidationCall ==
    mode = "fresh_validation"
    /\ pc \in {"stream_get", "stream_board", "stream_moves", "scores", "scores_chain",
               "summary"}

\* C29 as stated: test_board_creation_validation returns True only if at
\* least one board-creation check was performed; it never returns True when
\* neither past_tournament nor active_tournament was found.
C29_TrueOnlyIfCheckPerformed ==
    (ValidationReturned /\ validation_success) => PerformedChecks # {}

\* C29, amended: test_board_creation_validation returns True only if every
\* performed check was counted as passed (for the active tournament: a board
\* id was returned); when neither past_tournament nor active_tournament was
\* found, no check is performed and it returns True.
C29_TrueOnlyIfPerformedChecksPassed ==
    ValidationReturned =>
        /\ total_tests = Cardinality(PerformedChecks)
        /\ validation_success => success_count = Cardinality(PerformedChecks)
        /\ (validation_success /\ "active" \in PerformedChecks) => Truthy(checks.active.ret)
        /\ (AfterValidationCall /\ PerformedChecks = {}) => validation_success

\* the validation returned True after the one check it performed, on the
\* active tournament, gave a board id
C29_Witness ==
    /\ ValidationReturned
    /\ validation_success
    /\ PerformedChecks = {"active"}
    /\ checks.active.ret = "B1"

\* C30: run_full_test(tournament_count) of the fresh tester returns True only
\* if, for every one of the tournament_count tournaments created in the run,
\* a board was created and moves were submitted; a run in which some created
\* tournament is missing from the state query does not return True.
C30_EveryCreatedTournamentPlayed ==
    (mode = "fresh_full" /\ pc = "done" /\ retval) =>
        \A i \in 1..tournament_count :
            \E b \in Range(boards) : b.tournament_name = FullName(i)

\* what a response says about the run's own user: the leaderboards hosted by
\* the user and the boards played by the user
OwnView(resp, user) ==
    [resp EXCEPT !.leaderboards = SelectSeq(@, LAMBDA lb : lb.host = user),
                 !.boards = SelectSeq(@, LAMBDA b : b.player = user)]

\* the answers of S that carry a leaderboard or a board of another user
WithOthers(S) == { a \in S : OwnView(a, Username(mode)) # a }

\* no step A of the run on an answer of S ends in another state than the
\* step B on that answer without the other users' leaderboards and boards
OwnDataDecides(S, A(_), B(_)) ==
    \A a \in WithOthers(S) : ~ENABLED (A(a) /\ ~B(OwnView(a, Username(mode))))

\* the same for a step that calls create_board, which reads the answer r2 of
\* the boards query
OwnBoardsDecide(A(_, _)) ==
    \A r1 \in MutationResponses({"ack"}), r2 \in WithOthers(BoardsResponses(mode)) :
        ~ENABLED (A(r1, r2) /\ ~A(r1, OwnView(r2, Username(mode))))

\* every step of the fresh tester that reads the leaderboards or the boards of
\* a response is decided by the run's own data (of the score check's chain
\* query only the request: what it reads is logged and never used)
FreshStepIgnoresOthers ==
    /\ (mode = "fresh_validation" /\ pc = "verify_query")
          => OwnDataDecides(StateResponses(mode), VerifyFirstQueryOn, VerifyFirstQueryOn)
    /\ (mode = "fresh_validation" /\ pc = "verify_force")
          => OwnBoardsDecide(VerifyForceBlockOn)
    /\ (mode = "fresh_validation" /\ pc = "verify_result")
          => OwnDataDecides(StateResponses(mode), VerifyResultOn, VerifyResultOn)
    /\ (mode = "fresh_validation" /\ pc = "get_past")
          => OwnDataDecides(StateResponses(mode), ValidationGetPastOn, ValidationGetPastOn)
    /\ (mode = "fresh_validation" /\ pc = "get_active")
          => OwnDataDecides(StateResponses(mode), ValidationGetActiveOn, ValidationGetActiveOn)
    /\ (mode = "fresh_validation" /\ pc = "check_past")
          => OwnBoardsDecide(ValidationCheckPastOn)
    /\ (mode = "fresh_validation" /\ pc = "check_active")
          => OwnBoardsDecide(ValidationCheckActiveOn)
    /\ (mode = "fresh_validation" /\ pc = "stream_get")
          => OwnDataDecides(StateResponses(mode), StreamGetActiveOn, StreamGetActiveOn)
    /\ (mode = "fresh_validation" /\ pc = "stream_board")
          => OwnBoardsDecide(StreamBoardOn)
    /\ (mode \in {"fresh_validation", "fresh_full"} /\ pc = "scores")
          => OwnDataDecides(LeaderboardResponses(mode, {0}), check_leaderboard_scoresOn,
                            check_leaderboard_scoresOn)
    /\ (mode \in {"fresh_validation", "fresh_full"} /\ pc = "scores_chain")
          => OwnDataDecides(ChainResponses(mode, {1}), ScoresChainOn, ScoresChainQuery)
    /\ (mode = "fresh_full" /\ pc = "initial_query")
          => OwnDataDecides(StateResponses(mode), FullInitialQueryOn, FullInitialQueryOn)
    /\ (mode = "fresh_full" /\ pc = "boards_query")
          => OwnDataDecides(StateResponses(mode), FullBoardsQueryOn, FullBoardsQueryOn)
    /\ (mode = "fresh_full" /\ pc = "board_loop")
          => \A r3 \in MutationResponses({"ack"}) :
                 LET FullBoardLoopBefore(r1, r2) == FullBoardLoopOn(r1, r2, r3)
                 IN  OwnBoardsDecide(FullBoardLoopBefore)
    /\ (mode = "fresh_full" /\ pc = "final_query")
          => OwnDataDecides(StateResponses(mode), FullFinalQueryOn, FullFinalQueryOn)

\* C31: a run's verdict does not depend on other players' data. Two runs of
\* the fresh tester whose responses differ only in leaderboards hosted by
\* another user and boards of another player send the same newBoard and
\* makeMoves requests and return the same verdict: at every step that reads a
\* response, the run moves to the state it would move to had the response
\* carried the run's own leaderboards and boards only, so the two runs stay in
\* the same state (requests sent and verdict included) step by step.
C31_VerdictIgnoresOtherPlayers == []FreshStepIgnoresOthers

\* the board test is about to receive a state listing a tournament of the
\* test user next to one of another user, and to go on with the user's own
C31_Witness ==
    /\ mode = "fresh_full"
    /\ pc = "boards_query"
    /\ \E a \in WithOthers(StateResponses(mode)) :
          ENABLED (FullBoardsQueryOn(a) /\ Len(leaderboards') = 1 /\ Len(a.leaderboards) = 2)

\* the leaderboards test_board_creation has sent a newBoard request for
OrigBoardTargets ==
    IF Truthy(player_chain_id) THEN { leaderboards[i] : i \in 1..(idx - 1) } ELSE {}

\* C32: the original tester creates boards only in tournaments created by its
\* own run: every newBoard request that test_board_creation sends targets one
\* of the tournaments created by create_multiple_tournaments in the same run.
C32_BoardsOnlyInOwnTournaments ==
    (mode = "orig_full" /\ pc = "board_loop") =>
        \A lb \in OrigBoardTargets : lb.host = Username(mode)

\* C33: a board id returned by create_board identifies the board created by
\* that very call: when validation mode calls create_board a second time for
\* active_tournament (step 5), it does not return the id of the board the
\* earlier call (the active-tournament check) returned. Board ids are unique,
\* so the earlier id names the earlier board; it can be returned again only
\* from a boards answer that lists the earlier board, whether or not the
\* second creation took effect.
C33_BoardIdOfThatCall ==
    (mode = "fresh_validation" /\ pc = "stream_moves" /\ Truthy(checks.active.ret))
        => board_id # checks.active.ret

\* the move timestamps a makeMoves request of the log carries, in order
MoveTimestamps(req) ==
    [k \in 1..req.n |-> IntOf(moves_list(req.n)[k][2])]

\* C34: over a whole run of run_full_test, the move timestamps submitted for
\* any one board are strictly increasing across all makeMoves requests for
\* that board (initial moves, additional moves and the trigger rounds), not
\* only within a single request.
C34_TimestampsIncreaseAcrossRequests ==
    mode = "fresh_full" =>
        \A i, j \in DOMAIN log :
            (i < j /\ log[i].op = "makeMoves" /\ log[j].op = "makeMoves"
                   /\ log[i].arg = log[j].arg)
            => MoveTimestamps(log[i])[log[i].n] < MoveTimestamps(log[j])[1]

\* a call-level run of one iteration of test_board_creation_and_moves that
\* created its board and submitted the moves
BoardIterationPlayed ==
    /\ mode = "unit"
    /\ pc = "returned"
    /\ call_args.fn = "board_iteration"
    /\ Len(last_call.sent) = 3

\* C35: for every board created by test_board_creation_and_moves, for any
\* number of tournaments the command line accepts, the board's creation
\* timestamp 10000000 + idx*10000000 is strictly smaller than the timestamp
\* of every move later submitted for that board (the first being 100000000).
C35_BoardCreatedBeforeMoves ==
    BoardIterationPlayed =>
        LET newBoard == last_call.sent[1]
            items == last_call.variables.moves.items
        IN  \A k \in DOMAIN items : newBoard.n < IntOf(items[k][2])

\* C36: make_graphql_request of the fresh tester and of the coordinator never
\* propagates an exception: for every outcome of the request (timeout, HTTP
\* error status, JSON body with an errors member of any shape, an empty list
\* included) it returns either the decoded data or None.
C36_NeverRaises ==
    (RequestReturned /\ call_args.tester \in {"fresh", "coord"}) =>
        last_call.ret.tag \in {"json", "None"}

====
